---- MODULE Spec2Model ----
(***************************************************************************)
(* Model of the paper-ingestion and chunked-analysis pipeline:             *)
(*   chunkText and analyzePaperWithGPT  (server/services/openai.ts),       *)
(*   the POST /api/papers/analyze handler (server/routes.ts) and           *)
(*   MemStorage (server/storage.ts).                                       *)
(* A string is a sequence of one-character strings.                        *)
(***************************************************************************)
EXTENDS Integers, Sequences, FiniteSets, TLC

\* ------------------------------------------------------------------------
\* Bounds of the model
\* ------------------------------------------------------------------------

\* longest input text given to chunkText in SpecChunk
MaxTextLen == 8

\* largest token budget given to chunkText in SpecChunk
MaxBudget == 1

\* most text items of a first page given to parsePDF in SpecParse
MaxFragments == 3

\* largest vertical position of a text item in SpecParse
MaxY == 2

\* most DiagramGenerator components mounted in SpecDiagram
MaxDiagrams == 4

\* ------------------------------------------------------------------------
\* Strings
\* ------------------------------------------------------------------------

NULL == "undefined"

\* the characters texts are made of: a letter, and the characters the
\* separators '\n\n' and '. ' are made of
Chars == {"a", "\n", ".", " "}

ParagraphSep == <<"\n", "\n">>

SentenceSep == <<".", " ">>

Texts(n) == UNION {[1..k -> Chars] : k \in 0..n}

\* String.prototype.split(sep) for a non-empty separator: the pieces between
\* the leftmost non-overlapping occurrences of sep; "" splits to [""]
RECURSIVE SplitFrom(_, _, _, _)
SplitFrom(s, sep, i, piece) ==
  IF i > Len(s) THEN <<piece>>
  ELSE IF i + Len(sep) - 1 <= Len(s) /\ SubSeq(s, i, i + Len(sep) - 1) = sep
       THEN <<piece>> \o SplitFrom(s, sep, i + Len(sep), <<>>)
       ELSE SplitFrom(s, sep, i + 1, Append(piece, s[i]))

Split(s, sep) == SplitFrom(s, sep, 1, <<>>)

\* ------------------------------------------------------------------------
\* chunkText
\* ------------------------------------------------------------------------

\* characters per token of the size estimate
CharsPerToken == 4

MaxChars(maxTokens) == maxTokens * CharsPerToken

\* the fit test of both loops: the separator is not part of the measured string
Fits(currentChunk, piece, maxChars) == Len(currentChunk \o piece) <= maxChars

\* currentChunk += (currentChunk ? sep : '') + piece
Appended(currentChunk, sep, piece) ==
  currentChunk \o (IF currentChunk # <<>> THEN sep ELSE <<>>) \o piece

\* one iteration of the sentence loop; st = [chunks, currentChunk]
SentenceStep(st, sentence, maxChars) ==
  IF Fits(st.currentChunk, sentence, maxChars)
  THEN [st EXCEPT !.currentChunk = Appended(@, SentenceSep, sentence)]
  ELSE IF st.currentChunk # <<>>
       THEN [chunks |-> Append(st.chunks, st.currentChunk), currentChunk |-> sentence]
       ELSE [st EXCEPT !.chunks = Append(@, sentence)]

RECURSIVE SentenceLoop(_, _, _)
SentenceLoop(st, sentences, maxChars) ==
  IF sentences = <<>> THEN st
  ELSE SentenceLoop(SentenceStep(st, Head(sentences), maxChars), Tail(sentences), maxChars)

\* one iteration of the paragraph loop
ParagraphStep(st, paragraph, maxChars) ==
  IF Fits(st.currentChunk, paragraph, maxChars)
  THEN [st EXCEPT !.currentChunk = Appended(@, ParagraphSep, paragraph)]
  ELSE IF st.currentChunk # <<>>
       THEN [chunks |-> Append(st.chunks, st.currentChunk), currentChunk |-> paragraph]
       ELSE SentenceLoop(st, Split(paragraph, SentenceSep), maxChars)

RECURSIVE ParagraphLoop(_, _, _)
ParagraphLoop(st, paragraphs, maxChars) ==
  IF paragraphs = <<>> THEN st
  ELSE ParagraphLoop(ParagraphStep(st, Head(paragraphs), maxChars), Tail(paragraphs), maxChars)

\* if (currentChunk) chunks.push(currentChunk)
FinalFlush(st) ==
  IF st.currentChunk # <<>> THEN Append(st.chunks, st.currentChunk) ELSE st.chunks

\* mutant of chunkText: the early return of a text within maxChars left out
chunkTextAlwaysPacked(text, maxTokens) ==
  FinalFlush(ParagraphLoop([chunks |-> <<>>, currentChunk |-> <<>>],
                           Split(text, ParagraphSep), MaxChars(maxTokens)))

chunkText(text, maxTokens) ==
  IF Len(text) <= MaxChars(maxTokens) THEN <<text>>
  ELSE FinalFlush(ParagraphLoop([chunks |-> <<>>, currentChunk |-> <<>>],
                                Split(text, ParagraphSep), MaxChars(maxTokens)))

\* ------------------------------------------------------------------------
\* validateArxivUrl
\* ------------------------------------------------------------------------

Digits == {"0", "1", "2", "3", "4", "5", "6", "7", "8", "9"}

\* the characters of the class [a-z-]
LowerOrDash ==
  {"a", "b", "c", "d", "e", "f", "g", "h", "i", "j", "k", "l", "m", "n", "o", "p", "q",
   "r", "s", "t", "u", "v", "w", "x", "y", "z", "-"}

ArxivOrg == <<"a", "r", "x", "i", "v", ".", "o", "r", "g">>

AbsPrefix == ArxivOrg \o <<"/", "a", "b", "s", "/">>

PdfPrefix == ArxivOrg \o <<"/", "p", "d", "f", "/">>

\* s[from .. from + n - 1] exists and is made of characters of class
AllIn(s, from, n, class) ==
  from + n - 1 <= Len(s) /\ \A k \in from..(from + n - 1) : s[k] \in class

\* the length of the longest run of characters of class that starts at s[from]
RECURSIVE RunLength(_, _, _)
RunLength(s, from, class) ==
  IF from <= Len(s) /\ s[from] \in class THEN 1 + RunLength(s, from + 1, class) ELSE 0

\* ([0-9]{4}\.[0-9]{4,5}) matched at s[p]: the captured id, or <<>>
NewStyleIdAt(s, p) ==
  IF AllIn(s, p, 4, Digits) /\ p + 4 <= Len(s) /\ s[p + 4] = "." /\ AllIn(s, p + 5, 4, Digits)
  THEN SubSeq(s, p, IF AllIn(s, p + 9, 1, Digits) THEN p + 9 ELSE p + 8)
  ELSE <<>>

\* ([a-z-]+\/[0-9]{7}) matched at s[p]: the captured id, or <<>>
OldStyleIdAt(s, p) ==
  LET n == RunLength(s, p, LowerOrDash)
  IN IF n >= 1 /\ p + n <= Len(s) /\ s[p + n] = "/" /\ AllIn(s, p + n + 1, 7, Digits)
     THEN SubSeq(s, p, p + n + 7)
     ELSE <<>>

\* url.match(/<prefix>(<id>)/): the ids captured after the occurrences of prefix,
\* as a set of <<position, id>>
NewStyleMatches(url, prefix) ==
  { <<p, NewStyleIdAt(url, p + Len(prefix))>> :
      p \in { q \in 1..Len(url) : /\ q + Len(prefix) - 1 <= Len(url)
                                  /\ SubSeq(url, q, q + Len(prefix) - 1) = prefix
                                  /\ NewStyleIdAt(url, q + Len(prefix)) # <<>> } }

OldStyleMatches(url, prefix) ==
  { <<p, OldStyleIdAt(url, p + Len(prefix))>> :
      p \in { q \in 1..Len(url) : /\ q + Len(prefix) - 1 <= Len(url)
                                  /\ SubSeq(url, q, q + Len(prefix) - 1) = prefix
                                  /\ OldStyleIdAt(url, q + Len(prefix)) # <<>> } }

\* the capture of the leftmost match
Leftmost(matches) == (CHOOSE m \in matches : \A o \in matches : m[1] <= o[1])[2]

\* mutant of extractArxivId: the patterns of the old-style identifiers left out
extractArxivIdNewStyle(url) ==
  IF NewStyleMatches(url, AbsPrefix) # {} THEN Leftmost(NewStyleMatches(url, AbsPrefix))
  ELSE IF NewStyleMatches(url, PdfPrefix) # {} THEN Leftmost(NewStyleMatches(url, PdfPrefix))
  ELSE <<>>

\* the four patterns in order, the first that matches decides; <<>> is null
extractArxivId(url) ==
  IF NewStyleMatches(url, AbsPrefix) # {} THEN Leftmost(NewStyleMatches(url, AbsPrefix))
  ELSE IF NewStyleMatches(url, PdfPrefix) # {} THEN Leftmost(NewStyleMatches(url, PdfPrefix))
  ELSE IF OldStyleMatches(url, AbsPrefix) # {} THEN Leftmost(OldStyleMatches(url, AbsPrefix))
  ELSE IF OldStyleMatches(url, PdfPrefix) # {} THEN Leftmost(OldStyleMatches(url, PdfPrefix))
  ELSE <<>>

validateArxivUrl(url) == extractArxivId(url) # <<>>

Https == <<"h", "t", "t", "p", "s", ":", "/", "/">>

\* a new-style identifier (1706.03762) and an old-style one (hep-th/9901001)
NewStyleId == <<"1", "7", "0", "6", ".", "0", "3", "7", "6", "2">>

OldStyleId == <<"h", "e", "p", "-", "t", "h", "/", "9", "9", "0", "1", "0", "0", "1">>

\* the URLs of the four patterns: abs and pdf, with a new-style and an
\* old-style identifier, after https://
PatternUrls ==
  { Https \o prefix \o id : prefix \in {AbsPrefix, PdfPrefix}, id \in {NewStyleId, OldStyleId} }

\* other URLs: an identifier of four digits after the point; an identifier cut
\* short; another host; a path that is neither abs nor pdf; an old-style
\* identifier of six digits; an old-style identifier with a subject class
OtherUrls ==
  { Https \o AbsPrefix \o <<"1", "7", "0", "6", ".", "0", "3", "7", "6">>,
    Https \o AbsPrefix \o <<"1", "7", "0", "6">>,
    Https \o <<"e", "x", "a", "m", "p", "l", "e", ".", "o", "r", "g", "/", "a", "b", "s", "/">> \o NewStyleId,
    Https \o ArxivOrg \o <<"/", "l", "i", "s", "t", "/">> \o NewStyleId,
    Https \o PdfPrefix \o <<"h", "e", "p", "-", "t", "h", "/", "9", "9", "0", "1", "0", "0">>,
    Https \o AbsPrefix \o <<"m", "a", "t", "h", ".", "A", "G", "/", "0", "6", "0", "1", "0", "0", "1">> }

\* the arXiv URLs of the requests
RequestUrls == PatternUrls \cup OtherUrls

\* ------------------------------------------------------------------------
\* Values of the analysis
\* ------------------------------------------------------------------------

\* the string made of n characters c
Rep(c, n) == [k \in 1..n |-> c]

\* "Research Paper", the route's fallback title
ResearchPaper == <<"R","e","s","e","a","r","c","h"," ","P","a","p","e","r">>

\* "Research Paper Analysis", the fallback title of analyzePaperWithGPT
ResearchPaperAnalysis == ResearchPaper \o <<" ","A","n","a","l","y","s","i","s">>

\* the token budget analyzePaperWithGPT passes to chunkText. The code passes
\* 15000 (60000 characters); the model scales the budget down so that the
\* documents that need several chunks stay short.
AnalysisMaxTokens == 1

\* the text parsePDF makes of a page with the one text item str, and of a page
\* without text: every item is followed by ' ', every page by '\n'
Page(str) == str \o <<" ", "\n">>

EmptyPage == <<"\n">>

\* the document bodies of the requests, as parsePDF builds them: no page, one
\* page, pages of text with pages without text between them, and six pages
\* without text (1, 1, 2, 3 and 0 chunks under maxChars = 4)
PaperContents ==
  { <<>>,
    Page(Rep("a", 2)),
    Page(Rep("a", 2)) \o EmptyPage \o Page(Rep("a", 2)),
    Page(Rep("a", 2)) \o EmptyPage \o Page(Rep("a", 2)) \o EmptyPage \o Page(Rep("a", 2)),
    Rep("\n", 6) }

\* what parsePDF / fetchArxivPaper resolve to, as far as the route reads it
ParsedContents ==
  { [title |-> t, authors |-> "A. Author", content |-> c] :
      t \in {<<>>, Rep("t", 12)}, c \in PaperContents }

\* the errors a rejected promise carries (instances of Error, with a message)
Causes ==
  { [isError |-> TRUE, message |-> "Connection error."],
    [isError |-> TRUE, message |-> "429 rate limit"] }

\* the error JSON.parse throws on a reply that is not JSON
SyntaxError == [isError |-> TRUE, message |-> "Unexpected token in JSON"]

\* error instanceof Error ? error.message : fallback
ErrorMessage(error, fallback) == IF error.isError THEN error.message ELSE fallback

\* the key concepts k1 .. kn
Concept(n) == <<"k1","k2","k3","k4","k5","k6","k7","k8","k9","k10","k11","k12","k13","k14">>[n]

ManyConcepts == [n \in 1..13 |-> Concept(n)]

EmptyObject == <<>>

\* the replies of the model to a chunk request: message.content (null, text that
\* is not JSON, or a JSON object, given by its fields) and the optional usage
ChunkResponses ==
  { [content |-> [kind |-> "json",
                  value |-> [generatedTitle |-> Rep("g", 12), overview |-> "X",
                             complexity |-> "Intermediate", readingTime |-> "10 min",
                             keyConcepts |-> <<"a", "b">>, sections |-> <<"Intro">>]],
     usage |-> [prompt_tokens |-> 1000, completion_tokens |-> 500]],
    [content |-> [kind |-> "json",
                  value |-> [keyConcepts |-> <<"b", "c", "b">>, sections |-> <<"Method">>]],
     usage |-> [prompt_tokens |-> 25, completion_tokens |-> 3]],
    [content |-> [kind |-> "json",
                  value |-> [overview |-> "Y", complexity |-> "Beginner", readingTime |-> "5 min",
                             keyConcepts |-> ManyConcepts, sections |-> <<"Results", "Intro">>]],
     usage |-> [prompt_tokens |-> 0, completion_tokens |-> 40]],
    [content |-> [kind |-> "json",
                  value |-> [generatedTitle |-> Rep("g", 12), overview |-> "",
                             keyConcepts |-> <<"k14", "a">>]],
     usage |-> [prompt_tokens |-> 7, completion_tokens |-> 0]],
    [content |-> [kind |-> "null"]],
    [content |-> [kind |-> "malformed"],
     usage |-> [prompt_tokens |-> 10, completion_tokens |-> 10]] }

\* the replies to the title request: null, or a text (of 10 and of 11
\* characters between white space, of white space only, of 149 and of 150
\* characters)
TitleResponses ==
  { [content |-> [kind |-> "null"]],
    [content |-> [kind |-> "text", value |-> <<" ">> \o Rep("T", 10) \o <<"\n">>],
     usage |-> [prompt_tokens |-> 60, completion_tokens |-> 4]],
    [content |-> [kind |-> "text", value |-> <<" ">> \o Rep("T", 11)],
     usage |-> [prompt_tokens |-> 60, completion_tokens |-> 5]],
    [content |-> [kind |-> "text", value |-> <<" ", "\n">>],
     usage |-> [prompt_tokens |-> 60, completion_tokens |-> 1]],
    [content |-> [kind |-> "text", value |-> Rep("T", 149)],
     usage |-> [prompt_tokens |-> 60, completion_tokens |-> 49]],
    [content |-> [kind |-> "text", value |-> Rep("T", 150) \o <<" ">>],
     usage |-> [prompt_tokens |-> 60, completion_tokens |-> 50]] }

\* ------------------------------------------------------------------------
\* State
\* ------------------------------------------------------------------------

\* the requests of the model
Requests == {1}

VARIABLES
  ctPhase,        \* SpecChunk: "input" before the call of chunkText, "done" after
  ctText,         \* SpecChunk: the argument text
  ctMaxTokens,    \* SpecChunk: the argument maxTokens
  ctChunks,       \* SpecChunk: the returned chunks
  pdfPhase,       \* SpecParse: "input" before the call of parsePDF, "done" after
  pdfVersion,     \* SpecParse: the version of the parser file that is called
  pdfData,        \* SpecParse: what pdfExtract.extract hands to its callback
  pdfResult,      \* SpecParse: how the promise of parsePDF settled
  usedDiagramTypes, \* the module-level set of diagram-generator.tsx
  diagrams,       \* the DiagramGenerator components mounted so far, with their type
  pc,             \* per request: the await the handler is suspended at
  input,          \* per request: req.file and req.body.arxivUrl
  tempFilePath,   \* per request: the handler's tempFilePath
  files,          \* the temporary files that exist
  parsedContent,  \* per request: the handler's parsedContent
  paper,          \* per request: the id of the handler's paper (0: none yet)
  papers,         \* MemStorage.papers
  analyses,       \* MemStorage.analyses
  loc,            \* per request: the locals of analyzePaperWithGPT
  calls,          \* per request: the model calls issued, in order
  inflight,       \* per request: the model calls issued and not yet settled
  received,       \* per request: the settled model calls with what they settled to
  outcome,        \* per request: how the promise of analyzePaperWithGPT settled
  response        \* per request: the HTTP response sent

ctVars == <<ctPhase, ctText, ctMaxTokens, ctChunks>>

pdfVars == <<pdfPhase, pdfVersion, pdfData, pdfResult>>

diagramVars == <<usedDiagramTypes, diagrams>>

\* the state outside the request handlers
fnVars == <<ctVars, pdfVars, diagramVars>>

routeVars == <<pc, input, tempFilePath, files, parsedContent, paper, papers, analyses, response>>

routeVarsButPc == <<input, tempFilePath, files, parsedContent, paper, papers, analyses, response>>

analysisVars == <<loc, calls, inflight, received, outcome>>

vars == <<fnVars, routeVars, analysisVars>>

\* the locals of analyzePaperWithGPT as declared
InitialLocals ==
  [chunks |-> <<>>, i |-> 0, originalTitle |-> <<>>, allSections |-> <<>>, keyConcepts |-> <<>>,
   overview |-> "", complexity |-> "Advanced", readingTime |-> "15 min",
   totalTokensUsed |-> 0, totalCost |-> 0, generatedTitle |-> <<>>]

\* the server after start, before any of the requests rs arrived
Idle(rs) ==
  /\ pc = [r \in rs |-> "idle"]
  /\ input = [r \in rs |-> [file |-> NULL, arxivUrl |-> NULL]]
  /\ tempFilePath = [r \in rs |-> NULL]
  /\ files = {}
  /\ parsedContent = [r \in rs |-> EmptyObject]
  /\ paper = [r \in rs |-> 0]
  /\ papers = <<>>
  /\ analyses = <<>>
  /\ loc = [r \in rs |-> InitialLocals]
  /\ calls = [r \in rs |-> <<>>]
  /\ inflight = [r \in rs |-> {}]
  /\ received = [r \in rs |-> <<>>]
  /\ outcome = [r \in rs |-> [kind |-> "pending"]]
  /\ response = [r \in rs |-> [status |-> 0]]

NoRequestYet == Idle(Requests)

NoChunkCall ==
  /\ ctPhase = "unused"
  /\ ctText = <<>>
  /\ ctMaxTokens = 1
  /\ ctChunks = <<>>

NoParseCall ==
  /\ pdfPhase = "unused"
  /\ pdfVersion = "part_006"
  /\ pdfData = [kind |-> "null"]
  /\ pdfResult = [kind |-> "pending"]

\* the set as the module creates it, and no component mounted
NoDiagram ==
  /\ usedDiagramTypes = {}
  /\ diagrams = <<>>

\* ------------------------------------------------------------------------
\* SpecChunk: chunkText applied to every bounded input
\* ------------------------------------------------------------------------

\* the pieces of the longer texts: none, a short one, and one longer than the
\* smallest maxChars
Pieces == {<<>>, Rep("a", 1), Rep("a", CharsPerToken + 1)}

\* longer texts: three pieces with a paragraph or a sentence separator between them
StructuredTexts ==
  { p1 \o s1 \o p2 \o s2 \o p3 :
      p1 \in Pieces, p2 \in Pieces, p3 \in Pieces,
      s1 \in {ParagraphSep, SentenceSep}, s2 \in {ParagraphSep, SentenceSep} }

InitChunk ==
  /\ ctPhase = "input"
  /\ ctText \in Texts(MaxTextLen) \cup StructuredTexts
  /\ ctMaxTokens \in 1..MaxBudget
  /\ ctChunks = <<>>
  /\ NoParseCall
  /\ NoDiagram
  /\ NoRequestYet

CallChunkText ==
  /\ ctPhase = "input"
  /\ ctChunks' = chunkText(ctText, ctMaxTokens)
  /\ ctPhase' = "done"
  /\ UNCHANGED <<ctText, ctMaxTokens, pdfVars, diagramVars, routeVars, analysisVars>>

NextChunk == CallChunkText

SpecChunk == InitChunk /\ [][NextChunk]_vars

\* ------------------------------------------------------------------------
\* MemStorage
\* ------------------------------------------------------------------------

\* createPaper: a record under a fresh id, with status "pending"
createPaper(ps, insertPaper) ==
  Append(ps, [title |-> insertPaper.title, content |-> insertPaper.content,
              status |-> "pending", processingCost |-> <<>>])

\* mutant of updatePaperStatus: the status is assigned to every paper of the map
updatePaperStatusOfAll(ps, id, status, cost) ==
  [k \in DOMAIN ps |-> [ps[k] EXCEPT !.status = status,
                                      !.processingCost = IF cost # <<>> THEN cost ELSE @]]

\* updatePaperStatus(id, status, cost?): cost is <<>> when the argument is omitted
updatePaperStatus(ps, id, status, cost) ==
  IF id \in DOMAIN ps
  THEN [ps EXCEPT ![id].status = status,
                  ![id].processingCost = IF cost # <<>> THEN cost ELSE @]
  ELSE ps

createAnalysis(as, insertAnalysis) == Append(as, insertAnalysis)

\* getAnalysisByPaperId: the analyses found for the paper (empty: undefined)
getAnalysisByPaperId(as, paperId) == { k \in DOMAIN as : as[k].paperId = paperId }

\* ------------------------------------------------------------------------
\* analyzePaperWithGPT
\* ------------------------------------------------------------------------

\* dollars per million input tokens and per million output tokens
InputRate == 2

OutputRate == 8

\* at most this many key concepts are returned
MaxKeyConcepts == 12

\* the bounds of an accepted title: more than MinTitle, fewer than MaxTitle characters
MinTitle == 10

MaxTitle == 150

ChunkCall(i) == [kind |-> "chunk", index |-> i]

TitleCall == [kind |-> "title", index |-> 0]

\* mutant of CallsToIssue: every chunk request is issued at once (Promise.all)
CallsToIssueAll(i, n) == IF i = 0 THEN [k \in 1..n |-> k - 1] ELSE <<>>

\* the chunk indices whose model call is issued when the loop body starts with
\* index i: the loop body issues one call, for chunk i, and awaits it
CallsToIssue(i, n) == <<i>>

\* JSON.parse(content || '{}') of a content that parses
ParseContent(content) == IF content.kind = "json" THEN content.value ELSE EmptyObject

\* obj.field || fallback, for a string field
StringOr(obj, field, fallback) ==
  IF field \in DOMAIN obj /\ obj[field] # "" THEN obj[field] ELSE fallback

\* obj.field || [], for a list field
ListOr(obj, field) == IF field \in DOMAIN obj THEN obj[field] ELSE <<>>

\* response.usage?.<field> || 0
UsageOr0(resp, field) == IF "usage" \in DOMAIN resp THEN resp.usage[field] ELSE 0

\* mutant of CallCost: the two rates exchanged
CallCostSwapped(inputTokens, outputTokens) == inputTokens * OutputRate + outputTokens * InputRate

\* inputCost + outputCost of one call, in millionths of a dollar:
\* (inputTokens / 1000000) * 2.00 + (outputTokens / 1000000) * 8.00 dollars
CallCost(inputTokens, outputTokens) == inputTokens * InputRate + outputTokens * OutputRate

\* mutant of Accumulate: = in place of +=
AccumulateAssign(total, amount) == amount

\* total += amount
Accumulate(total, amount) == total + amount

\* mutant of MergeChunk: the document-level fields taken from every reply
MergeChunkEvery(l, resp) ==
  LET chunkResult == ParseContent(resp.content)
      inputTokens == UsageOr0(resp, "prompt_tokens")
      outputTokens == UsageOr0(resp, "completion_tokens")
  IN [l EXCEPT
        !.overview = StringOr(chunkResult, "overview",
           "Comprehensive analysis of transformer architecture and attention mechanisms."),
        !.complexity = StringOr(chunkResult, "complexity", "Advanced"),
        !.readingTime = StringOr(chunkResult, "readingTime", "20 min"),
        !.allSections = @ \o ListOr(chunkResult, "sections"),
        !.keyConcepts = @ \o ListOr(chunkResult, "keyConcepts"),
        !.totalTokensUsed = Accumulate(@, inputTokens + outputTokens),
        !.totalCost = Accumulate(@, CallCost(inputTokens, outputTokens)),
        !.i = @ + 1]

\* the loop body after the await: the reply to chunk l.i merged into the locals
MergeChunk(l, resp) ==
  LET chunkResult == ParseContent(resp.content)
      inputTokens == UsageOr0(resp, "prompt_tokens")
      outputTokens == UsageOr0(resp, "completion_tokens")
      first == IF l.i = 0
               THEN [l EXCEPT
                       !.overview = StringOr(chunkResult, "overview",
                          "Comprehensive analysis of transformer architecture and attention mechanisms."),
                       !.complexity = StringOr(chunkResult, "complexity", "Advanced"),
                       !.readingTime = StringOr(chunkResult, "readingTime", "20 min")]
               ELSE l
  IN [first EXCEPT
        !.allSections = @ \o ListOr(chunkResult, "sections"),
        !.keyConcepts = @ \o ListOr(chunkResult, "keyConcepts"),
        !.totalTokensUsed = Accumulate(@, inputTokens + outputTokens),
        !.totalCost = Accumulate(@, CallCost(inputTokens, outputTokens)),
        !.i = @ + 1]

\* mutant of Dedupe: only a repetition of the element just before is dropped
RECURSIVE DedupeAdjacent(_)
DedupeAdjacent(list) ==
  IF Len(list) <= 1 THEN list
  ELSE LET front == DedupeAdjacent(SubSeq(list, 1, Len(list) - 1))
       IN IF list[Len(list)] = list[Len(list) - 1] THEN front ELSE Append(front, list[Len(list)])

\* [...new Set(list)]: the first occurrence of every element, in order
RECURSIVE Dedupe(_)
Dedupe(list) ==
  IF list = <<>> THEN <<>>
  ELSE LET front == Dedupe(SubSeq(list, 1, Len(list) - 1))
           last == list[Len(list)]
       IN IF \E k \in 1..Len(front) : front[k] = last THEN front ELSE Append(front, last)

\* list.slice(0, n)
Slice0(list, n) == SubSeq(list, 1, IF Len(list) < n THEN Len(list) ELSE n)

\* the code after the loop, up to the title request
AfterLoop(l) ==
  [l EXCEPT !.keyConcepts = Dedupe(@),
            !.generatedTitle = IF l.originalTitle # <<>> THEN l.originalTitle
                               ELSE ResearchPaperAnalysis]

Whitespace == {" ", "\n"}

\* String.prototype.trim
RECURSIVE Trim(_)
Trim(str) ==
  IF str = <<>> THEN str
  ELSE IF Head(str) \in Whitespace THEN Trim(Tail(str))
  ELSE IF str[Len(str)] \in Whitespace THEN Trim(SubSeq(str, 1, Len(str) - 1))
  ELSE str

\* mutant of TitleAfterReply: a title of MinTitle or of MaxTitle characters is accepted too
TitleAfterReplyInclusive(l, resp) ==
  LET titleResponse == IF resp.content.kind = "text" THEN Trim(resp.content.value) ELSE <<>>
  IN IF titleResponse # <<>> /\ Len(titleResponse) >= MinTitle /\ Len(titleResponse) <= MaxTitle
     THEN titleResponse
     ELSE l.generatedTitle

\* the title after the title reply: content?.trim(), accepted by its length
TitleAfterReply(l, resp) ==
  LET titleResponse == IF resp.content.kind = "text" THEN Trim(resp.content.value) ELSE <<>>
  IN IF titleResponse # <<>> /\ Len(titleResponse) > MinTitle /\ Len(titleResponse) < MaxTitle
     THEN titleResponse
     ELSE l.generatedTitle

\* Number(totalCost.toFixed(4)): to the nearest ten-thousandth of a dollar,
\* kept in millionths
ToFixed4(micros) == ((micros + 50) \div 100) * 100

\* mutant of ResultOf: a section that was returned before is left out
ResultOfDistinctSections(l) ==
  [overview |-> l.overview,
   sections |-> Dedupe(l.allSections),
   keyConcepts |-> Slice0(l.keyConcepts, MaxKeyConcepts),
   complexity |-> l.complexity,
   readingTime |-> l.readingTime,
   totalTokens |-> l.totalTokensUsed,
   estimatedCost |-> ToFixed4(l.totalCost),
   generatedTitle |-> l.generatedTitle]

\* the returned object (analysisTime, a wall-clock reading, is left out)
ResultOf(l) ==
  [overview |-> l.overview,
   sections |-> l.allSections,
   keyConcepts |-> Slice0(l.keyConcepts, MaxKeyConcepts),
   complexity |-> l.complexity,
   readingTime |-> l.readingTime,
   totalTokens |-> l.totalTokensUsed,
   estimatedCost |-> ToFixed4(l.totalCost),
   generatedTitle |-> l.generatedTitle]

\* mutant of CatchOutcome: the error is swallowed and what was accumulated returned
CatchOutcomePartial(l, error) == [kind |-> "returned", value |-> ResultOf(l)]

\* the catch block: how the promise settles when error is thrown inside the try
CatchOutcome(l, error) ==
  [kind |-> "rejected",
   message |-> "Failed to analyze paper: " \o ErrorMessage(error, "Unknown error")]

\* mutant of StoreLocals: the accumulators declared at module scope, one copy
\* for all runs, so that what a run assigns is what every run reads next
StoreLocalsShared(r, l) ==
  [q \in DOMAIN loc |->
     IF q = r THEN l
     ELSE [loc[q] EXCEPT !.allSections = l.allSections, !.keyConcepts = l.keyConcepts,
                         !.overview = l.overview, !.totalTokensUsed = l.totalTokensUsed,
                         !.totalCost = l.totalCost]]

\* the locals are declared inside the function: every call has its own, and
\* an assignment of the run of request r changes the locals of that run only
StoreLocals(r, l) == [loc EXCEPT ![r] = l]

\* the loop test with locals l and the unsettled calls fl: the next chunk
\* request, or the code after the loop up to the title request or the return
Proceed(r, l, fl) ==
  IF l.i < Len(l.chunks)
  THEN LET issue == CallsToIssue(l.i, Len(l.chunks))
       IN /\ loc' = StoreLocals(r, l)
          /\ calls' = [calls EXCEPT ![r] = @ \o [k \in 1..Len(issue) |-> ChunkCall(issue[k])]]
          /\ inflight' = [inflight EXCEPT ![r] = fl \cup {ChunkCall(issue[k]) : k \in 1..Len(issue)}]
          /\ UNCHANGED outcome
          /\ pc' = [pc EXCEPT ![r] = "awaitModel"]
  ELSE LET done == AfterLoop(l)
       IN /\ loc' = StoreLocals(r, done)
          /\ IF Len(done.allSections) > 0
             THEN /\ calls' = [calls EXCEPT ![r] = Append(@, TitleCall)]
                  /\ inflight' = [inflight EXCEPT ![r] = fl \cup {TitleCall}]
                  /\ UNCHANGED outcome
                  /\ pc' = [pc EXCEPT ![r] = "awaitModel"]
             ELSE /\ inflight' = [inflight EXCEPT ![r] = fl]
                  /\ outcome' = [outcome EXCEPT ![r] = [kind |-> "returned", value |-> ResultOf(done)]]
                  /\ UNCHANGED calls
                  /\ pc' = [pc EXCEPT ![r] = "awaitAnalysis"]

\* an error thrown inside the try with the unsettled calls fl
Throw(r, error, fl) ==
  /\ outcome' = [outcome EXCEPT ![r] = CatchOutcome(loc[r], error)]
  /\ inflight' = [inflight EXCEPT ![r] = fl]
  /\ pc' = [pc EXCEPT ![r] = "awaitAnalysis"]
  /\ UNCHANGED <<loc, calls>>

\* the call of analyzePaperWithGPT, up to its first await
StartAnalysis(r) ==
  /\ pc[r] = "awaitUpdateProcessing"
  /\ received' = received
  /\ Proceed(r,
             [InitialLocals EXCEPT
                !.chunks = chunkText(parsedContent[r].content, AnalysisMaxTokens),
                !.originalTitle = IF parsedContent[r].title # <<>> THEN parsedContent[r].title
                                  ELSE ResearchPaper],
             inflight[r])
  /\ UNCHANGED <<fnVars, routeVarsButPc>>

\* the request for chunk loc.i resolves with resp
ChunkReply(r, resp) ==
  /\ pc[r] = "awaitModel"
  /\ ChunkCall(loc[r].i) \in inflight[r]
  /\ received' = [received EXCEPT ![r] = Append(@, [call |-> ChunkCall(loc[r].i), resp |-> resp])]
  /\ IF resp.content.kind = "malformed"
     THEN Throw(r, SyntaxError, inflight[r] \ {ChunkCall(loc[r].i)})
     ELSE Proceed(r, MergeChunk(loc[r], resp), inflight[r] \ {ChunkCall(loc[r].i)})
  /\ UNCHANGED <<fnVars, routeVarsButPc>>

\* the request for chunk loc.i rejects with error
ChunkCallFails(r, error) ==
  /\ pc[r] = "awaitModel"
  /\ ChunkCall(loc[r].i) \in inflight[r]
  /\ received' = [received EXCEPT ![r] = Append(@, [call |-> ChunkCall(loc[r].i), error |-> error])]
  /\ Throw(r, error, inflight[r] \ {ChunkCall(loc[r].i)})
  /\ UNCHANGED <<fnVars, routeVarsButPc>>

\* the title request resolves with resp
TitleReply(r, resp) ==
  /\ pc[r] = "awaitModel"
  /\ TitleCall \in inflight[r]
  /\ received' = [received EXCEPT ![r] = Append(@, [call |-> TitleCall, resp |-> resp])]
  /\ loc' = StoreLocals(r, [loc[r] EXCEPT !.generatedTitle = TitleAfterReply(loc[r], resp)])
  /\ outcome' = [outcome EXCEPT ![r] = [kind |-> "returned", value |-> ResultOf(loc'[r])]]
  /\ inflight' = [inflight EXCEPT ![r] = @ \ {TitleCall}]
  /\ pc' = [pc EXCEPT ![r] = "awaitAnalysis"]
  /\ UNCHANGED <<fnVars, routeVarsButPc, calls>>

\* mutant of TitleCallFails: the failure of the title request is swallowed and
\* the merged result returned with the title of the document
TitleCallFailsKeepsTitle(r, error) ==
  /\ pc[r] = "awaitModel"
  /\ TitleCall \in inflight[r]
  /\ received' = [received EXCEPT ![r] = Append(@, [call |-> TitleCall, error |-> error])]
  /\ outcome' = [outcome EXCEPT ![r] = [kind |-> "returned", value |-> ResultOf(loc[r])]]
  /\ inflight' = [inflight EXCEPT ![r] = @ \ {TitleCall}]
  /\ pc' = [pc EXCEPT ![r] = "awaitAnalysis"]
  /\ UNCHANGED <<fnVars, routeVarsButPc, loc, calls>>

\* the title request rejects with error
TitleCallFails(r, error) ==
  /\ pc[r] = "awaitModel"
  /\ TitleCall \in inflight[r]
  /\ received' = [received EXCEPT ![r] = Append(@, [call |-> TitleCall, error |-> error])]
  /\ Throw(r, error, inflight[r] \ {TitleCall})
  /\ UNCHANGED <<fnVars, routeVarsButPc>>

\* ------------------------------------------------------------------------
\* POST /api/papers/analyze
\* ------------------------------------------------------------------------

\* the first bytes of the uploaded files: a PDF, and a file that is none
FileHeaders == {"%PDF", "GIF8"}

\* validatePDF: the file starts with the PDF magic number
validatePDF(header) == header = "%PDF"

\* where multer stores the upload of request r
UploadPath(r) == "/tmp/upload-" \o ToString(r)

\* the errors parsePDF and fetchArxivPaper reject with
ParseErrors ==
  { [isError |-> TRUE, message |-> "Failed to parse PDF: Failed to extract content from PDF"],
    [isError |-> TRUE, message |-> "Failed to fetch arXiv paper: arXiv API request failed"] }

\* the finally block: unlinkSync(tempFilePath) when tempFilePath is set
Cleanup(fs, path) == IF path # NULL THEN fs \ {path} ELSE fs

\* mutant of CatchResponse: a fixed message, the cause dropped
CatchResponseGeneric(error) == [status |-> 500, body |-> [message |-> "Failed to analyze paper"]]

\* the catch block of the handler
CatchResponse(error) ==
  [status |-> 500, body |-> [message |-> ErrorMessage(error, "Failed to analyze paper")]]

\* the handler from its start to its first await, or to its early return: fs
\* are the temporary files after multer stored the upload
Received(r, file, arxivUrl, fs) ==
  IF file = NULL /\ arxivUrl = <<>>
  THEN [pc |-> "responded", tempFilePath |-> NULL, files |-> Cleanup(fs, NULL),
        response |-> [status |-> 400,
                      body |-> [message |-> "Either PDF file or arXiv URL must be provided"]]]
  ELSE IF arxivUrl # <<>> /\ ~validateArxivUrl(arxivUrl)
  THEN [pc |-> "responded", tempFilePath |-> NULL, files |-> Cleanup(fs, NULL),
        response |-> [status |-> 400, body |-> [message |-> "Invalid arXiv URL format"]]]
  ELSE IF file # NULL
  THEN IF ~validatePDF(file)
       THEN [pc |-> "responded", tempFilePath |-> UploadPath(r),
             files |-> Cleanup(fs, UploadPath(r)),
             response |-> [status |-> 400, body |-> [message |-> "Invalid PDF file"]]]
       ELSE [pc |-> "awaitParse", tempFilePath |-> UploadPath(r), files |-> fs,
             response |-> response[r]]
  ELSE [pc |-> "awaitParse", tempFilePath |-> NULL, files |-> fs, response |-> response[r]]

\* a request arrives: file is the header of the uploaded file (NULL: no file),
\* arxivUrl the URL of the body (<<>>: none)
Receive(r, file, arxivUrl) ==
  /\ pc[r] = "idle"
  /\ input' = [input EXCEPT ![r] = [file |-> file, arxivUrl |-> arxivUrl]]
  /\ LET to == Received(r, file, arxivUrl,
                        IF file # NULL THEN files \cup {UploadPath(r)} ELSE files)
     IN /\ pc' = [pc EXCEPT ![r] = to.pc]
        /\ tempFilePath' = [tempFilePath EXCEPT ![r] = to.tempFilePath]
        /\ files' = to.files
        /\ response' = [response EXCEPT ![r] = to.response]
  /\ UNCHANGED <<fnVars, analysisVars, parsedContent, paper, papers, analyses>>

\* parsePDF / fetchArxivPaper resolves: the paper is created
ParseResolves(r, content) ==
  /\ pc[r] = "awaitParse"
  /\ parsedContent' = [parsedContent EXCEPT ![r] = content]
  /\ papers' = createPaper(papers,
                 [title |-> IF content.title # <<>> THEN content.title ELSE ResearchPaper,
                  content |-> content.content])
  /\ paper' = [paper EXCEPT ![r] = Len(papers')]
  /\ pc' = [pc EXCEPT ![r] = "awaitCreatePaper"]
  /\ UNCHANGED <<fnVars, analysisVars, input, tempFilePath, files, analyses, response>>

\* parsePDF / fetchArxivPaper rejects: catch and finally
ParseRejects(r, error) ==
  /\ pc[r] = "awaitParse"
  /\ response' = [response EXCEPT ![r] = CatchResponse(error)]
  /\ files' = Cleanup(files, tempFilePath[r])
  /\ pc' = [pc EXCEPT ![r] = "responded"]
  /\ UNCHANGED <<fnVars, analysisVars, input, tempFilePath, parsedContent, paper, papers, analyses>>

\* after createPaper: the status becomes "processing"
AfterCreatePaper(r) ==
  /\ pc[r] = "awaitCreatePaper"
  /\ papers' = updatePaperStatus(papers, paper[r], "processing", <<>>)
  /\ pc' = [pc EXCEPT ![r] = "awaitUpdateProcessing"]
  /\ UNCHANGED <<fnVars, analysisVars, input, tempFilePath, files, parsedContent, paper,
                 analyses, response>>

\* the object the handler hands to createAnalysis
\* (analysisTime is Math.round(totalTokens / 1000), before the text is added)
InsertAnalysisOf(paperId, analysisResult) ==
  [paperId |-> paperId,
   sections |-> analysisResult.sections,
   keyConcepts |-> analysisResult.keyConcepts,
   overview |-> analysisResult.overview,
   complexity |-> analysisResult.complexity,
   readingTime |-> analysisResult.readingTime,
   analysisTime |-> (analysisResult.totalTokens + 500) \div 1000,
   totalCost |-> analysisResult.estimatedCost]

\* analyzePaperWithGPT resolved: the analysis is stored
AnalysisResolved(r) ==
  /\ pc[r] = "awaitAnalysis"
  /\ outcome[r].kind = "returned"
  /\ analyses' = createAnalysis(analyses, InsertAnalysisOf(paper[r], outcome[r].value))
  /\ pc' = [pc EXCEPT ![r] = "awaitCreateAnalysis"]
  /\ UNCHANGED <<fnVars, analysisVars, input, tempFilePath, files, parsedContent, paper,
                 papers, response>>

\* analyzePaperWithGPT rejected: catch and finally
AnalysisRejected(r) ==
  /\ pc[r] = "awaitAnalysis"
  /\ outcome[r].kind = "rejected"
  /\ response' = [response EXCEPT
                    ![r] = CatchResponse([isError |-> TRUE, message |-> outcome[r].message])]
  /\ files' = Cleanup(files, tempFilePath[r])
  /\ pc' = [pc EXCEPT ![r] = "responded"]
  /\ UNCHANGED <<fnVars, analysisVars, input, tempFilePath, parsedContent, paper, papers, analyses>>

\* after createAnalysis: the status becomes "completed", with the cost
AfterCreateAnalysis(r) ==
  /\ pc[r] = "awaitCreateAnalysis"
  /\ papers' = updatePaperStatus(papers, paper[r], "completed",
                                 <<outcome[r].value.estimatedCost>>)
  /\ pc' = [pc EXCEPT ![r] = "awaitUpdateCompleted"]
  /\ UNCHANGED <<fnVars, analysisVars, input, tempFilePath, files, parsedContent, paper,
                 analyses, response>>

\* the stored analysis of the paper of request r, as createAnalysis returned it
StoredAnalysis(r) == analyses[CHOOSE k \in DOMAIN analyses : analyses[k].paperId = paper[r]]

\* after the last update: the success response, and finally
Respond(r) ==
  /\ pc[r] = "awaitUpdateCompleted"
  /\ response' = [response EXCEPT
       ![r] = [status |-> 200,
               body |-> [success |-> TRUE,
                         paper |-> [id |-> paper[r], title |-> papers[paper[r]].title,
                                    status |-> "completed"],
                         analysis |-> StoredAnalysis(r)]]]
  /\ files' = Cleanup(files, tempFilePath[r])
  /\ pc' = [pc EXCEPT ![r] = "responded"]
  /\ UNCHANGED <<fnVars, analysisVars, input, tempFilePath, parsedContent, paper, papers, analyses>>

\* ------------------------------------------------------------------------
\* Spec: requests to POST /api/papers/analyze
\* ------------------------------------------------------------------------

Init == NoChunkCall /\ NoParseCall /\ NoDiagram /\ NoRequestYet

Next ==
  \E r \in Requests :
    \/ \E file \in FileHeaders \cup {NULL}, arxivUrl \in RequestUrls \cup {<<>>} :
         Receive(r, file, arxivUrl)
    \/ \E content \in ParsedContents : ParseResolves(r, content)
    \/ \E error \in ParseErrors : ParseRejects(r, error)
    \/ AfterCreatePaper(r)
    \/ StartAnalysis(r)
    \/ \E resp \in ChunkResponses : ChunkReply(r, resp)
    \/ \E error \in Causes : ChunkCallFails(r, error)
    \/ \E resp \in TitleResponses : TitleReply(r, resp)
    \/ \E error \in Causes : TitleCallFails(r, error)
    \/ AnalysisResolved(r)
    \/ AnalysisRejected(r)
    \/ AfterCreateAnalysis(r)
    \/ Respond(r)

Spec == Init /\ [][Next]_vars

\* ------------------------------------------------------------------------
\* SpecConcurrent: two requests in flight at the same time
\* ------------------------------------------------------------------------

\* two requests the server handles at once; each handler, and each run of
\* analyzePaperWithGPT, runs from one await to the next without interruption
ConcurrentRequests == {1, 2}

\* the parse results of the two requests: titled papers of several pages of text
ConcurrentContents ==
  { c \in ParsedContents :
      c.title # <<>> /\ Cardinality({k \in 1..Len(c.content) : c.content[k] = "a"}) > 2 }

\* the model's replies to their chunk requests: JSON with sections and a few concepts
ConcurrentChunkResponses ==
  { resp \in ChunkResponses :
      /\ resp.content.kind = "json"
      /\ "sections" \in DOMAIN resp.content.value
      /\ Len(resp.content.value.keyConcepts) <= 3 }

\* the replies to their title requests: the texts of 10 and of 11 characters
ConcurrentTitleResponses ==
  { resp \in TitleResponses :
      resp.content.kind = "text" /\ Len(Trim(resp.content.value)) \in {MinTitle, MinTitle + 1} }

\* the rejection their model calls can end in
ConcurrentCauses == { error \in Causes : error.message = "Connection error." }

InitConcurrent == NoChunkCall /\ NoParseCall /\ NoDiagram /\ Idle(ConcurrentRequests)

NextConcurrent ==
  \E r \in ConcurrentRequests :
    \/ \E file \in {header \in FileHeaders : validatePDF(header)} : Receive(r, file, <<>>)
    \/ \E content \in ConcurrentContents : ParseResolves(r, content)
    \/ AfterCreatePaper(r)
    \/ StartAnalysis(r)
    \/ \E resp \in ConcurrentChunkResponses : ChunkReply(r, resp)
    \/ \E error \in ConcurrentCauses : ChunkCallFails(r, error)
    \/ \E resp \in ConcurrentTitleResponses : TitleReply(r, resp)
    \/ \E error \in ConcurrentCauses : TitleCallFails(r, error)
    \/ AnalysisResolved(r)
    \/ AnalysisRejected(r)
    \/ AfterCreateAnalysis(r)
    \/ Respond(r)

SpecConcurrent == InitConcurrent /\ [][NextConcurrent]_vars

\* ------------------------------------------------------------------------
\* parsePDF
\* ------------------------------------------------------------------------

UpperCase ==
  <<"A", "B", "C", "D", "E", "F", "G", "H", "I", "J", "K", "L", "M", "N", "O", "P", "Q",
    "R", "S", "T", "U", "V", "W", "X", "Y", "Z">>

LowerCase ==
  <<"a", "b", "c", "d", "e", "f", "g", "h", "i", "j", "k", "l", "m", "n", "o", "p", "q",
    "r", "s", "t", "u", "v", "w", "x", "y", "z">>

\* String.prototype.toLowerCase
ToLowerCase(text) ==
  [k \in 1..Len(text) |->
     IF \E n \in 1..Len(UpperCase) : UpperCase[n] = text[k]
     THEN LowerCase[CHOOSE n \in 1..Len(UpperCase) : UpperCase[n] = text[k]]
     ELSE text[k]]

\* String.prototype.includes
Includes(text, sub) ==
  \E i \in 1..(Len(text) - Len(sub) + 1) : SubSeq(text, i, i + Len(sub) - 1) = sub

\* the words the filters look for
WordArxiv == <<"a", "r", "x", "i", "v">>

WordPreprint == <<"p", "r", "e", "p", "r", "i", "n", "t">>

WordAbstract == <<"a", "b", "s", "t", "r", "a", "c", "t">>

WordUniversity == <<"u", "n", "i", "v", "e", "r", "s", "i", "t", "y">>

\* "Unknown Authors", the fallback of authors
UnknownAuthors ==
  <<"U", "n", "k", "n", "o", "w", "n", " ", "A", "u", "t", "h", "o", "r", "s">>

\* item.str && item.str.trim(): the item carries text
HasText(item) == item.str # <<>> /\ Trim(item.str) # <<>>

\* pageText of a page: every item with text, followed by ' '
RECURSIVE ItemsText(_)
ItemsText(items) ==
  IF items = <<>> THEN <<>>
  ELSE (IF HasText(Head(items)) THEN Head(items).str \o <<" ">> ELSE <<>>)
       \o ItemsText(Tail(items))

PageText(page) == IF "content" \in DOMAIN page THEN ItemsText(page.content) ELSE <<>>

\* fullText: the pageText of every page, followed by '\n'
RECURSIVE FullText(_)
FullText(pages) ==
  IF pages = <<>> THEN <<>>
  ELSE PageText(Head(pages)) \o <<"\n">> \o FullText(Tail(pages))

\* Array.prototype.sort with (a, b) => b.y - a.y: by decreasing y, items of
\* equal y in their order in the page (the sort is stable)
RECURSIVE SortByY(_)
SortByY(items) ==
  IF items = <<>> THEN <<>>
  ELSE LET front == SortByY(SubSeq(items, 1, Len(items) - 1))
           last == items[Len(items)]
           n == Cardinality({k \in 1..Len(front) : front[k].y >= last.y})
       IN SubSeq(front, 1, n) \o <<last>> \o SubSeq(front, n + 1, Len(front))

\* sortedContent: the items of the first page that carry text, top to bottom
SortedContent(firstPage) == SortByY(SelectSeq(firstPage, HasText))

\* the number of leading text blocks searched for the title
TitleWindow == 10

\* the text blocks searched for the authors: slice(1, AuthorWindow)
AuthorWindow == 15

\* the filter of titleCandidates
IsTitleCandidate(item) ==
  LET text == Trim(item.str)
  IN /\ Len(text) > 5
     /\ Len(text) < 150
     /\ ~Includes(ToLowerCase(text), WordArxiv)
     /\ ~Includes(ToLowerCase(text), WordPreprint)
     /\ ~Includes(ToLowerCase(text), WordAbstract)
     /\ ~(\A k \in 1..Len(text) : text[k] \in Digits)
     /\ ~(Len(text) >= 2 /\ \A k \in 1..Len(text) : \E n \in 1..Len(UpperCase) : UpperCase[n] = text[k])
     /\ Len(Split(text, <<" ">>)) > 1

\* the filter of authorCandidates
IsAuthorCandidate(item) ==
  LET text == Trim(item.str)
  IN /\ Len(text) > 3
     /\ Len(text) < 200
     /\ ~Includes(ToLowerCase(text), WordAbstract)
     /\ ~Includes(ToLowerCase(text), WordUniversity)
     /\ (Includes(text, <<" ">>) \/ Includes(text, <<",">>))

TitleCandidates(sortedContent) == SelectSeq(Slice0(sortedContent, TitleWindow), IsTitleCandidate)

AuthorCandidates(sortedContent) ==
  SelectSeq(SubSeq(sortedContent, 2, IF Len(sortedContent) < AuthorWindow
                                     THEN Len(sortedContent) ELSE AuthorWindow),
            IsAuthorCandidate)

\* data.pages && data.pages[0] && data.pages[0].content
HasFirstPage(pages) == pages # <<>> /\ "content" \in DOMAIN pages[1]

\* mutant of TitleOf: the topmost text block is the title, the filter left out
TitleOfTopmost(pages) ==
  IF HasFirstPage(pages) /\ SortedContent(pages[1].content) # <<>>
  THEN Trim(SortedContent(pages[1].content)[1].str)
  ELSE ResearchPaper

\* title: the first candidate, or "Research Paper"
TitleOf(pages) ==
  IF HasFirstPage(pages) /\ TitleCandidates(SortedContent(pages[1].content)) # <<>>
  THEN Trim(TitleCandidates(SortedContent(pages[1].content))[1].str)
  ELSE ResearchPaper

\* authors: the first candidate, or "Unknown Authors"
AuthorsOf(pages) ==
  IF HasFirstPage(pages) /\ AuthorCandidates(SortedContent(pages[1].content)) # <<>>
  THEN Trim(AuthorCandidates(SortedContent(pages[1].content))[1].str)
  ELSE UnknownAuthors

\* the other version of the file (part_005): the number of top elements kept,
\* and the number of them searched for the authors
TopWindow == 20

AuthorSearch == 10

\* item.str && item.str.trim() && item.str.trim().length > 3
IsTopElement(item) == HasText(item) /\ Len(Trim(item.str)) > 3

\* topElements: the longer text items of the first page, top to bottom
TopElements(firstPage) == Slice0(SortByY(SelectSeq(firstPage, IsTopElement)), TopWindow)

Letters == {UpperCase[n] : n \in 1..Len(UpperCase)} \cup {LowerCase[n] : n \in 1..Len(LowerCase)}

IsLikelyTitle(item) ==
  LET text == Trim(item.str)
  IN /\ Len(text) >= 10
     /\ Len(text) <= 100
     /\ ~Includes(ToLowerCase(text), WordArxiv)
     /\ ~Includes(ToLowerCase(text), WordPreprint)
     /\ ~Includes(ToLowerCase(text), WordAbstract)
     /\ ~Includes(ToLowerCase(text), <<"c", "s", ".">>)
     /\ NewStyleIdAt(text, 1) = <<>>
     /\ ~(Len(text) >= 2 /\ \A k \in 1..Len(text) : \E n \in 1..Len(UpperCase) : UpperCase[n] = text[k])
     /\ ~(\A k \in 1..Len(text) : text[k] \in Digits)
     /\ \E k \in 1..Len(text) : text[k] \in Letters
     /\ Len(Split(text, <<" ">>)) >= 2
     /\ Len(Split(text, <<" ">>)) <= 15

IsLikelyAuthor(item) ==
  LET text == Trim(item.str)
  IN /\ Len(text) > 3
     /\ Len(text) < 100
     /\ ~Includes(ToLowerCase(text), WordAbstract)
     /\ ~Includes(ToLowerCase(text), WordArxiv)
     /\ (Includes(text, <<" ">>) \/ Includes(text, <<",">>))
     /\ ~Includes(text, <<"©">>)
     /\ ~Includes(text, <<"U", "n", "i", "v", "e", "r", "s", "i", "t", "y">>)
     /\ Len(Split(text, <<" ">>)) <= 8

\* the title loop: the first top element that is a likely title
LikelyTitleOf(pages) ==
  IF HasFirstPage(pages) /\ SelectSeq(TopElements(pages[1].content), IsLikelyTitle) # <<>>
  THEN Trim(SelectSeq(TopElements(pages[1].content), IsLikelyTitle)[1].str)
  ELSE ResearchPaper

\* the author loop: for (i = 1; i < Math.min(topElements.length, 10); i++)
LikelyAuthorsOf(pages) ==
  LET searched ==
        IF HasFirstPage(pages)
        THEN SubSeq(TopElements(pages[1].content), 2,
                    IF Len(TopElements(pages[1].content)) < AuthorSearch
                    THEN Len(TopElements(pages[1].content)) ELSE AuthorSearch)
        ELSE <<>>
  IN IF SelectSeq(searched, IsLikelyAuthor) # <<>>
     THEN Trim(SelectSeq(searched, IsLikelyAuthor)[1].str)
     ELSE UnknownAuthors

\* the text items of the first page that a version of the parser searches, top
\* to bottom: sortedContent, or topElements
Fragments(version, pages) ==
  IF ~HasFirstPage(pages) THEN <<>>
  ELSE IF version = "part_006" THEN SortedContent(pages[1].content)
  ELSE TopElements(pages[1].content)

\* the least element of a non-empty set of positions
Least(positions) == CHOOSE k \in positions : \A j \in positions : k <= j

\* the position in Fragments of the item taken as the title (0: none):
\* titleCandidates[0], or the item at which the title loop breaks
TitlePosition(version, pages) ==
  LET list == Fragments(version, pages)
      found == IF version = "part_006"
               THEN {k \in 1..Len(Slice0(list, TitleWindow)) : IsTitleCandidate(list[k])}
               ELSE {k \in 1..Len(list) : IsLikelyTitle(list[k])}
  IN IF found = {} THEN 0 ELSE Least(found)

\* the position in Fragments of the item taken as the authors (0: none):
\* authorCandidates[0] of slice(1, 15), or the item at which the loop from
\* i = 1 breaks
AuthorPosition(version, pages) ==
  LET list == Fragments(version, pages)
      found == IF version = "part_006"
               THEN {k \in 2..Len(Slice0(list, AuthorWindow)) : IsAuthorCandidate(list[k])}
               ELSE {k \in 2..Len(Slice0(list, AuthorSearch)) : IsLikelyAuthor(list[k])}
  IN IF found = {} THEN 0 ELSE Least(found)

\* parsePDF: data is what the extraction ended in: an error, nothing, an object
\* without pages, or an object with pages. (abstract and sections, which the
\* handler does not read, are left out of the returned object.)
parsePDF(data, version) ==
  IF data.kind = "error"
  THEN [kind |-> "rejected",
        message |-> "Failed to parse PDF: " \o ErrorMessage(data.error, "Unknown error")]
  ELSE IF data.kind \in {"null", "nopages"}
  THEN [kind |-> "rejected",
        message |-> "Failed to parse PDF: Failed to extract content from PDF"]
  ELSE [kind |-> "resolved",
        value |-> [title |-> IF version = "part_006" THEN TitleOf(data.pages)
                             ELSE LikelyTitleOf(data.pages),
                   authors |-> IF version = "part_006" THEN AuthorsOf(data.pages)
                               ELSE LikelyAuthorsOf(data.pages),
                   content |-> FullText(data.pages)]]

\* ------------------------------------------------------------------------
\* SpecParse: parsePDF applied to every bounded parser output
\* ------------------------------------------------------------------------

\* the text items of the first pages: a title, a line of authors, an arXiv
\* stamp, a heading between blanks, a line of affiliations, blanks
AttentionTitle ==
  <<"A", "t", "t", "e", "n", "t", "i", "o", "n", " ", "I", "s", " ", "A", "l", "l", " ",
    "Y", "o", "u", " ", "N", "e", "e", "d">>

VaswaniAuthors ==
  <<"A", "s", "h", "i", "s", "h", " ", "V", "a", "s", "w", "a", "n", "i", ",", " ", "N",
    "o", "a", "m", " ", "S", "h", "a", "z", "e", "e", "r">>

ArxivStamp ==
  <<"a", "r", "X", "i", "v", ":", "1", "7", "0", "6", ".", "0", "3", "7", "6", "2", "v",
    "5">>

PaddedAbstract ==
  <<" ", "A", "b", "s", "t", "r", "a", "c", "t", " ">>

Affiliation ==
  <<"G", "o", "o", "g", "l", "e", " ", "B", "r", "a", "i", "n", ",", " ", "U", "n", "i",
    "v", "e", "r", "s", "i", "t", "y", " ", "o", "f", " ", "T", "o", "r", "o", "n", "t",
    "o">>

Blank ==
  <<" ", " ">>

Venue ==
  <<"N", "I", "P", "S">>

Year ==
  <<"2", "0", "1", "7", "0", "6", "1", "2">>

FragmentTexts == {AttentionTitle, VaswaniAuthors, ArxivStamp, PaddedAbstract, Affiliation, Blank}

\* a text item of a page: its string and its vertical position
Items == { [str |-> t, y |-> y] : t \in FragmentTexts, y \in 1..MaxY }

ItemLists(n) == UNION { [1..k -> Items] : k \in 0..n }

\* a page object without content
NoContentPage == [pageInfo |-> 1]

\* a first page of more text blocks than the title search looks at: stamps,
\* a venue, a year and an item without text from the top, the title below them
CrowdedPage ==
  [content |->
     [k \in 1..(TitleWindow + 2) |->
        IF k = 1 THEN [str |-> AttentionTitle, y |-> 1]
        ELSE IF k = 2 THEN [str |-> Venue, y |-> 2]
        ELSE IF k = 3 THEN [str |-> Year, y |-> 3]
        ELSE IF k = 4 THEN [str |-> <<>>, y |-> 50]
        ELSE [str |-> ArxivStamp, y |-> k + 10]]]

FirstPages ==
  {NoContentPage, CrowdedPage} \cup { [content |-> items] : items \in ItemLists(MaxFragments) }

\* the pages of the documents: none, one, or two and three of which the later
\* ones carry a line of text or none
PageLists ==
  {<<>>}
  \cup { <<p>> : p \in FirstPages }
  \cup { <<p, [content |-> <<[str |-> AttentionTitle, y |-> 1]>>]>> :
           p \in {NoContentPage, [content |-> <<>>]} }
  \cup { <<p, NoContentPage, [content |-> <<>>]>> : p \in {NoContentPage, [content |-> <<>>]} }

\* what the extraction hands to its callback
ParserOutputs ==
  { [kind |-> "error", error |-> [isError |-> TRUE, message |-> "Invalid PDF structure"]],
    [kind |-> "null"], [kind |-> "nopages"] }
  \cup { [kind |-> "pages", pages |-> pages] : pages \in PageLists }

\* the two versions of the parser file that infer title and authors from the
\* text items of the first page
ParserVersions == {"part_006", "part_005"}

InitParse ==
  /\ pdfPhase = "input"
  /\ pdfVersion \in ParserVersions
  /\ pdfData \in ParserOutputs
  /\ pdfResult = [kind |-> "pending"]
  /\ NoChunkCall
  /\ NoDiagram
  /\ NoRequestYet

CallParsePDF ==
  /\ pdfPhase = "input"
  /\ pdfResult' = parsePDF(pdfData, pdfVersion)
  /\ pdfPhase' = "done"
  /\ UNCHANGED <<pdfVersion, pdfData, ctVars, diagramVars, routeVars, analysisVars>>

NextParse == CallParsePDF

SpecParse == InitParse /\ [][NextParse]_vars

\* ------------------------------------------------------------------------
\* DiagramGenerator
\* ------------------------------------------------------------------------

\* the three diagram types
Architecture == <<"a", "r", "c", "h", "i", "t", "e", "c", "t", "u", "r", "e">>

Flowchart == <<"f", "l", "o", "w", "c", "h", "a", "r", "t">>

ConceptMap == <<"c", "o", "n", "c", "e", "p", "t">>

\* the words of a section title that ask for an architecture diagram, and
\* those that ask for a flowchart
ArchitectureWords == {<<"a", "t", "t", "e", "n", "t", "i", "o", "n">>, <<"t", "r", "a", "n", "s", "f", "o", "r", "m", "e", "r">>, Architecture}

FlowchartWords == {<<"m", "e", "t", "h", "o", "d">>, <<"a", "p", "p", "r", "o", "a", "c", "h">>, <<"a", "l", "g", "o", "r", "i", "t", "h", "m">>}

\* `${sectionTitle}-${paperTitle}`
DiagramKey(sectionTitle, paperTitle) == sectionTitle \o <<"-">> \o paperTitle

\* sectionTitle.toLowerCase().includes(word) for one of words
TitleHas(sectionTitle, words) == \E word \in words : Includes(ToLowerCase(sectionTitle), word)

\* getDiagramType with the module-level set used: the type returned (<<>> is
\* null) and the set afterwards
getDiagramType(sectionTitle, paperTitle, used) ==
  LET diagramKey == DiagramKey(sectionTitle, paperTitle)
      take(type) == [type |-> type, used |-> used \cup {type, diagramKey}]
  IN IF diagramKey \in used THEN [type |-> <<>>, used |-> used]
     ELSE IF TitleHas(sectionTitle, ArchitectureWords) /\ Architecture \notin used
     THEN take(Architecture)
     ELSE IF TitleHas(sectionTitle, FlowchartWords) /\ Flowchart \notin used
     THEN take(Flowchart)
     ELSE IF ConceptMap \notin used THEN take(ConceptMap)
     ELSE [type |-> <<>>, used |-> used]

\* the titles of the papers shown in a session, and of their sections
PaperTitles == {<<"P", "a", "p", "e", "r", " ", "A">>, <<"P", "a", "p", "e", "r", " ", "B">>}

SectionTitles ==
  {<<"S", "e", "l", "f", "-", "A", "t", "t", "e", "n", "t", "i", "o", "n">>, <<"M", "e", "t", "h", "o", "d", "o", "l", "o", "g", "y">>, <<"R", "e", "s", "u", "l", "t", "s">>, <<"M", "o", "d", "e", "l", " ", "A", "r", "c", "h", "i", "t", "e", "c", "t", "u", "r", "e">>}

\* a DiagramGenerator is mounted for a section of a paper: its first render
\* calls getDiagramType for the initial state. (A later render of the same
\* component calls it again and leaves the set and the state as they are.)
MountDiagram(paperTitle, sectionTitle) ==
  /\ Len(diagrams) < MaxDiagrams
  /\ LET got == getDiagramType(sectionTitle, paperTitle, usedDiagramTypes)
     IN /\ usedDiagramTypes' = got.used
        /\ diagrams' = Append(diagrams, [paperTitle |-> paperTitle, sectionTitle |-> sectionTitle,
                                         diagramType |-> got.type])
  /\ UNCHANGED <<ctVars, pdfVars, routeVars, analysisVars>>

InitDiagram == NoChunkCall /\ NoParseCall /\ NoDiagram /\ NoRequestYet

NextDiagram ==
  \E paperTitle \in PaperTitles, sectionTitle \in SectionTitles :
    MountDiagram(paperTitle, sectionTitle)

SpecDiagram == InitDiagram /\ [][NextDiagram]_vars

\* ------------------------------------------------------------------------
\* Properties of chunkText (SpecChunk)
\* ------------------------------------------------------------------------

\* the sentences of a text: the pieces between '. ' inside each paragraph
SentencesOf(text) ==
  UNION { {Split(p, SentenceSep)[k] : k \in 1..Len(Split(p, SentenceSep))} :
          p \in {Split(text, ParagraphSep)[j] : j \in 1..Len(Split(text, ParagraphSep))} }

\* a forced-overflow chunk: exactly one sentence of the text, by itself too long
IsOverlongSentence(chunk, text, maxChars) ==
  chunk \in SentencesOf(text) /\ Len(chunk) > maxChars

\* C1: every chunk chunkText returns is at most maxTokens * 4 characters long,
\* unless the chunk is exactly one sentence that is by itself longer than that.
C1_ChunkSizeBound ==
  ctPhase = "done" =>
    \A k \in 1..Len(ctChunks) :
      \/ Len(ctChunks[k]) <= ctMaxTokens * 4
      \/ IsOverlongSentence(ctChunks[k], ctText, ctMaxTokens * 4)

\* the chunks joined in order, seps[k] re-inserted between chunk k and chunk k+1
RECURSIVE JoinWith(_, _)
JoinWith(pieces, seps) ==
  IF pieces = <<>> THEN <<>>
  ELSE IF Len(pieces) = 1 THEN pieces[1]
  ELSE pieces[1] \o seps[1] \o JoinWith(Tail(pieces), Tail(seps))

\* some choice of '\n\n' or '. ' at every chunk boundary gives the text back
Reconstructs(chunks, text) ==
  \E seps \in [1..(IF chunks = <<>> THEN 0 ELSE Len(chunks) - 1) -> {ParagraphSep, SentenceSep}] :
    JoinWith(chunks, seps) = text

\* C2: when no single sentence of the text is longer than maxChars, the chunks
\* joined in order with the cut separator re-inserted at every chunk boundary
\* are the input text: nothing is lost, duplicated or reordered.
C2_ChunkCoverage ==
  (ctPhase = "done" /\ \A s \in SentencesOf(ctText) : Len(s) <= ctMaxTokens * 4)
    => Reconstructs(ctChunks, ctText)

\* C3: chunkText returns at least one chunk for every non-empty text.
C3_ChunkCountFloor ==
  (ctPhase = "done" /\ ctText # <<>>) => Len(ctChunks) >= 1

\* ------------------------------------------------------------------------
\* Properties of analyzePaperWithGPT and of the handler (Spec)
\* ------------------------------------------------------------------------

\* the settled calls of request r that were chunk requests
IsChunkEntry(e) == e.call.kind = "chunk"

\* a call that rejected
IsFailure(e) == "error" \in DOMAIN e

\* a chunk reply that was merged: it resolved, with a content that parses
IsMerged(e) == IsChunkEntry(e) /\ ~IsFailure(e) /\ e.resp.content.kind # "malformed"

\* the number of chunk requests among the calls issued by request r
NumChunkCalls(r) == Cardinality({j \in 1..Len(calls[r]) : calls[r][j].kind = "chunk"})

\* C4: if the model call for chunk i fails, analyzePaperWithGPT rejects with an
\* error carrying the cause's message and no result object; no call is issued
\* for a later chunk (nor for the title), and chunk i is not requested again.
C4_FailedChunkAborts ==
  \A r \in Requests : \A k \in 1..Len(received[r]) :
    LET e == received[r][k]
    IN (IsChunkEntry(e) /\ IsFailure(e)) =>
         /\ outcome[r].kind = "rejected"
         /\ "value" \notin DOMAIN outcome[r]
         /\ outcome[r].message = "Failed to analyze paper: " \o e.error.message
         /\ k = Len(received[r])
         /\ inflight[r] = {}
         /\ Len(calls[r]) = e.call.index + 1
         /\ \A j \in 1..Len(calls[r]) : calls[r][j] = [kind |-> "chunk", index |-> j - 1]

\* C4 witness: the call for a chunk after chunk 0 failed, with sections and
\* cost accumulated from the chunks before it, and the promise is rejected
C4_Witness ==
  \E r \in Requests :
    /\ outcome[r].kind = "rejected"
    /\ Len(received[r]) >= 2
    /\ IsChunkEntry(received[r][Len(received[r])])
    /\ IsFailure(received[r][Len(received[r])])
    /\ Len(loc[r].allSections) > 0
    /\ loc[r].totalCost > 0

\* the error that made the analysis of request r fail
CauseOf(r) ==
  LET last == received[r][Len(received[r])]
  IN IF IsFailure(last) THEN last.error.message ELSE "Unexpected token in JSON"

\* C5: when analyzePaperWithGPT fails during a request, no Analysis record is
\* stored for that paper, and the response is an error carrying the cause
\* message and nothing of the analysis.
C5_FailedAnalysisNotStored ==
  \A r \in Requests :
    outcome[r].kind = "rejected" =>
      /\ getAnalysisByPaperId(analyses, paper[r]) = {}
      /\ pc[r] \in {"awaitAnalysis", "responded"}
      /\ pc[r] = "responded" =>
           /\ response[r].status = 500
           /\ DOMAIN response[r].body = {"message"}
           /\ response[r].body.message = "Failed to analyze paper: " \o CauseOf(r)

\* C5 witness: a request answered after its analysis failed at a later chunk
C5_Witness ==
  \E r \in Requests :
    /\ pc[r] = "responded"
    /\ outcome[r].kind = "rejected"
    /\ response[r].status = 500
    /\ Len(received[r]) >= 2
    /\ paper[r] \in DOMAIN papers

\* C6: the chunk requests are issued in increasing chunk index with at most
\* one call in flight; the request for a chunk is issued only after the
\* replies of all chunks before it were merged; a run that returns has
\* requested every chunk exactly once.
C6_SequentialChunkCalls ==
  \A r \in Requests :
    /\ Cardinality(inflight[r]) <= 1
    /\ \A j \in 1..Len(calls[r]) :
         calls[r][j].kind = "chunk" =>
           /\ calls[r][j].index = j - 1
           /\ Cardinality({k \in 1..Len(received[r]) : IsMerged(received[r][k])}) >= j - 1
    /\ \A k \in 1..Len(received[r]) : received[r][k].call = calls[r][k]
    /\ outcome[r].kind = "returned" => NumChunkCalls(r) = Len(loc[r].chunks)

\* C6 witness: a run over three chunks returned
C6_Witness ==
  \E r \in Requests :
    /\ outcome[r].kind = "returned"
    /\ Len(loc[r].chunks) = 3
    /\ NumChunkCalls(r) = 3

\* the key concepts of the chunk replies of request r, in chunk order
RECURSIVE ConceptsOfReplies(_)
ConceptsOfReplies(entries) ==
  IF entries = <<>> THEN <<>>
  ELSE (IF IsMerged(Head(entries)) /\ Head(entries).resp.content.kind = "json"
           /\ "keyConcepts" \in DOMAIN Head(entries).resp.content.value
        THEN Head(entries).resp.content.value.keyConcepts
        ELSE <<>>)
       \o ConceptsOfReplies(Tail(entries))

\* the position of the first occurrence of c in list
FirstIndex(list, c) == CHOOSE k \in 1..Len(list) : list[k] = c /\ \A j \in 1..(k - 1) : list[j] # c

\* picked are the first n distinct elements of list, in order of first appearance
IsFirstDistinct(picked, list, n) ==
  /\ Len(picked) <= n
  /\ \A j, k \in 1..Len(picked) : j # k => picked[j] # picked[k]
  /\ \A j \in 1..Len(picked) : \E k \in 1..Len(list) : list[k] = picked[j]
  /\ \A j, k \in 1..Len(picked) :
       j < k => FirstIndex(list, picked[j]) < FirstIndex(list, picked[k])
  /\ \A m \in 1..Len(list) :
       \/ \E j \in 1..Len(picked) : picked[j] = list[m]
       \/ /\ Len(picked) = n
          /\ \A j \in 1..Len(picked) : FirstIndex(list, picked[j]) < m

\* C7: the keyConcepts of the result have no duplicate, at most 12 entries, and
\* are the first 12 distinct concepts of the chunk replies in order of first
\* appearance, the replies taken in chunk order.
C7_KeyConceptsDeduped ==
  \A r \in Requests :
    outcome[r].kind = "returned" =>
      IsFirstDistinct(outcome[r].value.keyConcepts, ConceptsOfReplies(received[r]), 12)

\* C7 witness: a result cut to 12 concepts, from replies that name more than
\* 12 distinct concepts and repeat some
C7_Witness ==
  \E r \in Requests :
    /\ outcome[r].kind = "returned"
    /\ Len(outcome[r].value.keyConcepts) = 12
    /\ Len(ConceptsOfReplies(received[r])) > 14
    /\ Cardinality({ConceptsOfReplies(received[r])[k] :
                      k \in 1..Len(ConceptsOfReplies(received[r]))}) > 12

\* the generatedTitle of the reply to chunk 0, <<>> when there is none
FirstChunkTitle(r) ==
  IF /\ Len(received[r]) >= 1
     /\ IsMerged(received[r][1])
     /\ received[r][1].resp.content.kind = "json"
     /\ "generatedTitle" \in DOMAIN received[r][1].resp.content.value
  THEN received[r][1].resp.content.value.generatedTitle
  ELSE <<>>

\* C8: a usable generatedTitle in the reply to chunk 0 becomes the result's
\* generatedTitle, and the title request is issued only when chunk 0 gave none.
C8_FirstChunkTitleUsed ==
  \A r \in Requests :
    FirstChunkTitle(r) # <<>> =>
      /\ \A j \in 1..Len(calls[r]) : calls[r][j].kind # "title"
      /\ outcome[r].kind = "returned" => outcome[r].value.generatedTitle = FirstChunkTitle(r)

\* the sum over the merged chunk replies of a * prompt tokens + b * completion
\* tokens, a reply without usage counting 0
RECURSIVE SumMerged(_, _, _)
SumMerged(entries, a, b) ==
  IF entries = <<>> THEN 0
  ELSE (IF IsMerged(Head(entries)) /\ "usage" \in DOMAIN Head(entries).resp
        THEN a * Head(entries).resp.usage.prompt_tokens
             + b * Head(entries).resp.usage.completion_tokens
        ELSE 0)
       + SumMerged(Tail(entries), a, b)

\* in millionths of a dollar: tokens / 1,000,000 * rate dollars
CostOfUsage(u) == u.prompt_tokens * 2 + u.completion_tokens * 8

\* C9: the token total is the sum over the chunk calls of prompt tokens plus
\* completion tokens, the accumulated cost the sum over the chunk calls of
\* inputTokens / 1,000,000 * 2.00 + outputTokens / 1,000,000 * 8.00; a call
\* without usage adds 0 to both; the result carries that token total.
C9_TotalsAreSums ==
  \A r \in Requests :
    /\ loc[r].totalTokensUsed = SumMerged(received[r], 1, 1)
    /\ loc[r].totalCost = SumMerged(received[r], 2, 8)
    /\ outcome[r].kind = "returned" =>
         outcome[r].value.totalTokens = SumMerged(received[r], 1, 1)

\* C9 witness: a returned run over three chunks, one reply without usage and
\* two with different usage
C9_Witness ==
  \E r \in Requests :
    /\ outcome[r].kind = "returned"
    /\ loc[r].i = 3
    /\ \E k \in 1..3 : "usage" \notin DOMAIN received[r][k].resp
    /\ \E j, k \in 1..3 :
         /\ "usage" \in DOMAIN received[r][j].resp
         /\ "usage" \in DOMAIN received[r][k].resp
         /\ received[r][j].resp.usage # received[r][k].resp.usage
    /\ loc[r].totalCost > 0

\* C10: during one analysis the running cost and the running token total never
\* decrease from one step to the next.
C10_CostMonotone ==
  [][\A r \in Requests :
       /\ loc'[r].totalCost >= loc[r].totalCost
       /\ loc'[r].totalTokensUsed >= loc[r].totalTokensUsed]_vars

\* C10 witness: two chunks merged, each reply with a cost of its own
C10_Witness ==
  \E r \in Requests :
    /\ loc[r].i = 2
    /\ "usage" \in DOMAIN received[r][1].resp
    /\ "usage" \in DOMAIN received[r][2].resp
    /\ CostOfUsage(received[r][1].resp.usage) > 0
    /\ loc[r].totalCost > CostOfUsage(received[r][1].resp.usage)

\* ------------------------------------------------------------------------
\* Further properties of chunkText (SpecChunk)
\* ------------------------------------------------------------------------

\* C11: a text longer than maxChars and at most 2 * maxChars is returned as
\* exactly 2 chunks, both non-empty and neither longer than maxChars.
C11_TwoChunks ==
  (/\ ctPhase = "done"
   /\ Len(ctText) > MaxChars(ctMaxTokens)
   /\ Len(ctText) <= 2 * MaxChars(ctMaxTokens))
    => /\ Len(ctChunks) = 2
       /\ \A k \in 1..Len(ctChunks) :
            ctChunks[k] # <<>> /\ Len(ctChunks[k]) <= MaxChars(ctMaxTokens)

\* C12: no chunk chunkText returns is the empty string, for any text (the
\* empty text and texts with leading or consecutive paragraph separators
\* included) and any budget.
C12_NoEmptyChunk ==
  ctPhase = "done" => \A k \in 1..Len(ctChunks) : ctChunks[k] # <<>>

\* ------------------------------------------------------------------------
\* Properties of concurrent requests (SpecConcurrent)
\* ------------------------------------------------------------------------

\* the replies merged one after the other into the locals l, as a run that is
\* alone merges them
RECURSIVE MergedAlone(_, _)
MergedAlone(l, entries) ==
  IF entries = <<>> THEN l
  ELSE MergedAlone(IF IsMerged(Head(entries)) THEN MergeChunk(l, Head(entries).resp) ELSE l,
                   Tail(entries))

\* the locals of a run of its own that received, chunk after chunk, the replies
\* request r received so far
LocalsAlone(r) == MergedAlone(InitialLocals, received[r])

\* the fields of the result the claim names
NamedFields(result) ==
  <<result.sections, result.keyConcepts, result.overview, result.totalTokens,
    result.estimatedCost>>

\* C13: two runs of analyzePaperWithGPT for different papers, interleaved in
\* any way at their awaits, share no mutable state: what a run has accumulated,
\* and the sections, keyConcepts, overview, totalTokens and estimatedCost it
\* returns, are those of a run alone that receives the same model replies.
C13_RunsIndependent ==
  \A r \in ConcurrentRequests :
    /\ loc[r].allSections = LocalsAlone(r).allSections
    /\ loc[r].overview = LocalsAlone(r).overview
    /\ loc[r].totalTokensUsed = LocalsAlone(r).totalTokensUsed
    /\ loc[r].totalCost = LocalsAlone(r).totalCost
    /\ outcome[r].kind = "returned" =>
         NamedFields(outcome[r].value) = NamedFields(ResultOf(AfterLoop(LocalsAlone(r))))

\* C13 witness: both runs are suspended in their loops at the same time, each
\* with one chunk of its own paper merged and the next requested, and the two
\* have accumulated different totals
C13_Witness ==
  /\ \A r \in ConcurrentRequests :
       pc[r] = "awaitModel" /\ loc[r].i = 1 /\ Len(loc[r].allSections) > 0
       /\ inflight[r] = {ChunkCall(1)}
  /\ paper[1] # paper[2]
  /\ parsedContent[1].content # parsedContent[2].content
  /\ loc[1].totalTokensUsed # loc[2].totalTokensUsed

\* ------------------------------------------------------------------------
\* Properties of parsePDF (SpecParse)
\* ------------------------------------------------------------------------

\* C14: whenever parsePDF succeeds the returned content is non-empty, for
\* every parser output that is accepted, a pages list that is empty or whose
\* pages carry no text items included.
C14_ContentNonEmpty ==
  (pdfPhase = "done" /\ pdfResult.kind = "resolved") => pdfResult.value.content # <<>>

\* the text items of the first page of the parsed document
FirstPageFragments ==
  IF pdfData.kind = "pages" /\ HasFirstPage(pdfData.pages)
  THEN {pdfData.pages[1].content[k] : k \in 1..Len(pdfData.pages[1].content)}
  ELSE {}

\* the title heuristic and the author heuristic of the version called
PassesTitleHeuristic(item) ==
  IF pdfVersion = "part_006" THEN HasText(item) /\ IsTitleCandidate(item)
  ELSE IsTopElement(item) /\ IsLikelyTitle(item)

PassesAuthorHeuristic(item) ==
  IF pdfVersion = "part_006" THEN HasText(item) /\ IsAuthorCandidate(item)
  ELSE IsTopElement(item) /\ IsLikelyAuthor(item)

\* C15: the title parsePDF returns is never empty, and is "Research Paper"
\* when no text item of the first page satisfies the title heuristic or the
\* first page has none; likewise authors is never empty and falls back to
\* "Unknown Authors".
C15_TitleFallback ==
  (pdfPhase = "done" /\ pdfResult.kind = "resolved") =>
    /\ pdfResult.value.title # <<>>
    /\ pdfResult.value.authors # <<>>
    /\ (\A item \in FirstPageFragments : ~PassesTitleHeuristic(item))
         => pdfResult.value.title = ResearchPaper
    /\ (\A item \in FirstPageFragments : ~PassesAuthorHeuristic(item))
         => pdfResult.value.authors = UnknownAuthors

\* C15 witness: a first page of several text items of which none passes the
\* title heuristic or the author heuristic, parsed to both placeholders
C15_Witness ==
  /\ pdfPhase = "done"
  /\ pdfResult.kind = "resolved"
  /\ Cardinality({item \in FirstPageFragments : HasText(item)}) >= 2
  /\ \A item \in FirstPageFragments : ~PassesTitleHeuristic(item) /\ ~PassesAuthorHeuristic(item)
  /\ pdfResult.value.title = ResearchPaper
  /\ pdfResult.value.authors = UnknownAuthors

\* ------------------------------------------------------------------------
\* Properties of the validation of the request (Spec)
\* ------------------------------------------------------------------------

\* request r was received with an arXiv URL
HasUrl(r) == pc[r] # "idle" /\ input[r].arxivUrl # <<>>

\* C16: a request whose arxivUrl validateArxivUrl does not recognize is
\* answered with status 400 and causes no arXiv fetch, no Paper record and no
\* model call, whether or not a file came with it; every URL that is
\* arxiv.org/abs/<id> or arxiv.org/pdf/<id> with a new-style or an old-style
\* identifier is accepted.
C16_InvalidUrlRejected ==
  \A r \in Requests :
    /\ (HasUrl(r) /\ ~validateArxivUrl(input[r].arxivUrl)) =>
         /\ pc[r] = "responded"
         /\ response[r].status = 400
         /\ parsedContent[r] = EmptyObject
         /\ paper[r] = 0
         /\ papers = <<>>
         /\ calls[r] = <<>>
    /\ (HasUrl(r) /\ input[r].arxivUrl \in PatternUrls) =>
         /\ validateArxivUrl(input[r].arxivUrl)
         /\ pc[r] = "responded" /\ response[r].status = 400 => ~validatePDF(input[r].file)

\* C16 witness: a request with a valid PDF file and a URL that is not
\* recognized (the identifier has a subject class) was answered with 400
C16_Witness ==
  \E r \in Requests :
    /\ HasUrl(r)
    /\ input[r].file # NULL
    /\ validatePDF(input[r].file)
    /\ Includes(input[r].arxivUrl, <<"/", "a", "b", "s", "/", "m", "a", "t", "h">>)
    /\ ~validateArxivUrl(input[r].arxivUrl)
    /\ response[r].status = 400

\* ------------------------------------------------------------------------
\* Properties of the DiagramGenerator (SpecDiagram)
\* ------------------------------------------------------------------------

\* the types the sections of one paper receive when only that paper is shown:
\* its mounts replayed in order from an empty set
RECURSIVE TypesAlone(_, _, _)
TypesAlone(mounts, paperTitle, used) ==
  IF mounts = <<>> THEN <<>>
  ELSE IF Head(mounts).paperTitle # paperTitle
  THEN <<Head(mounts).diagramType>> \o TypesAlone(Tail(mounts), paperTitle, used)
  ELSE LET got == getDiagramType(Head(mounts).sectionTitle, paperTitle, used)
       IN <<got.type>> \o TypesAlone(Tail(mounts), paperTitle, got.used)

\* C17: the deduplication of diagram types is per paper: each of the three
\* types is given to at most one section of a paper, and the type a section
\* receives is the one it receives when only its own paper is shown, whatever
\* sections of other papers were rendered before.
C17_DiagramTypesPerPaper ==
  /\ \A j, k \in 1..Len(diagrams) :
       (/\ j # k
        /\ diagrams[j].paperTitle = diagrams[k].paperTitle
        /\ diagrams[j].diagramType # <<>>)
         => diagrams[j].diagramType # diagrams[k].diagramType
  /\ \A k \in 1..Len(diagrams) :
       diagrams[k].diagramType = TypesAlone(diagrams, diagrams[k].paperTitle, {})[k]

\* ------------------------------------------------------------------------
\* Properties of the packing of chunkText (SpecChunk)
\* ------------------------------------------------------------------------

\* the paragraphs of the text given to chunkText
Paragraphs == Split(ctText, ParagraphSep)

\* the call went past the early return
Packed == ctPhase = "done" /\ Len(ctText) > MaxChars(ctMaxTokens)

\* C18: a paragraph that is by itself longer than maxChars is split on '. '
\* and its sentences packed, whether or not the accumulator is empty when the
\* paragraph is reached: no returned chunk contains a whole paragraph of
\* several sentences that is longer than maxChars.
C18_LongParagraphSplit ==
  Packed =>
    \A j \in 1..Len(Paragraphs) :
      (Len(Paragraphs[j]) > MaxChars(ctMaxTokens) /\ Len(Split(Paragraphs[j], SentenceSep)) >= 2)
        => \A k \in 1..Len(ctChunks) : ~Includes(ctChunks[k], Paragraphs[j])

\* the state of the paragraph loop before paragraph j
BeforeParagraph(j) ==
  ParagraphLoop([chunks |-> <<>>, currentChunk |-> <<>>], SubSeq(Paragraphs, 1, j - 1),
                MaxChars(ctMaxTokens))

\* paragraph j is packed by sentences
SplitBySentences(j) ==
  /\ BeforeParagraph(j).currentChunk = <<>>
  /\ ~Fits(<<>>, Paragraphs[j], MaxChars(ctMaxTokens))

\* the state of the sentence loop of paragraph j before its sentence n
BeforeSentence(j, n) ==
  SentenceLoop(BeforeParagraph(j), SubSeq(Split(Paragraphs[j], SentenceSep), 1, n - 1),
               MaxChars(ctMaxTokens))

\* a step of the packing from before to after with a non-empty accumulator:
\* the piece is appended only if accumulator, separator and piece are together
\* within maxChars, and otherwise the accumulator is flushed and the piece
\* starts the next one
WithinBudget(before, after, sep, piece, maxChars) ==
  before.currentChunk # <<>> =>
    /\ after = [before EXCEPT !.currentChunk = @ \o sep \o piece]
         => Len(before.currentChunk \o sep \o piece) <= maxChars
    /\ Len(before.currentChunk \o sep \o piece) > maxChars
         => after = [chunks |-> Append(before.chunks, before.currentChunk),
                     currentChunk |-> piece]

\* C19: in the packing a paragraph, or a sentence, is appended to the current
\* accumulator only if accumulator, separator ('\n\n' or '. ') and piece
\* together are no longer than maxChars; otherwise the accumulator is flushed
\* as a chunk and the piece starts a new accumulator.
C19_SeparatorCounted ==
  Packed =>
    \A j \in 1..Len(Paragraphs) :
      /\ WithinBudget(BeforeParagraph(j),
                      ParagraphStep(BeforeParagraph(j), Paragraphs[j], MaxChars(ctMaxTokens)),
                      ParagraphSep, Paragraphs[j], MaxChars(ctMaxTokens))
      /\ SplitBySentences(j) =>
           \A n \in 1..Len(Split(Paragraphs[j], SentenceSep)) :
             WithinBudget(BeforeSentence(j, n),
                          SentenceStep(BeforeSentence(j, n), Split(Paragraphs[j], SentenceSep)[n],
                                       MaxChars(ctMaxTokens)),
                          SentenceSep, Split(Paragraphs[j], SentenceSep)[n],
                          MaxChars(ctMaxTokens))

\* C20: a sentence that is by itself longer than maxChars is emitted as a
\* chunk that is exactly that sentence, nothing merged into it, whether the
\* accumulator was empty or not when it was reached and whether or not it is
\* the last sentence of its paragraph: as many chunks are that sentence as the
\* text has sentences equal to it.
C20_OverlongSentenceAlone ==
  Packed =>
    \A s \in SentencesOf(ctText) :
      Len(s) > MaxChars(ctMaxTokens) =>
        Cardinality({k \in 1..Len(ctChunks) : ctChunks[k] = s})
          = Cardinality({<<j, n>> \in (1..Len(Paragraphs)) \X (1..Len(ctText) + 1) :
                           /\ n <= Len(Split(Paragraphs[j], SentenceSep))
                           /\ Split(Paragraphs[j], SentenceSep)[n] = s})

\* ------------------------------------------------------------------------
\* Properties of the merged result (Spec)
\* ------------------------------------------------------------------------

\* analyzePaperWithGPT was called for request r
Started(r) ==
  \/ pc[r] \in {"awaitModel", "awaitAnalysis", "awaitCreateAnalysis", "awaitUpdateCompleted"}
  \/ pc[r] = "responded" /\ outcome[r].kind # "pending"

\* C21: a text of at most maxTokens * 4 characters is returned by chunkText as
\* the one-element sequence of the text itself, unchanged, and
\* analyzePaperWithGPT then issues exactly one chunk request.
C21_ShortTextOneCall ==
  \A r \in Requests :
    (Started(r) /\ Len(parsedContent[r].content) <= MaxChars(AnalysisMaxTokens)) =>
      /\ loc[r].chunks = <<parsedContent[r].content>>
      /\ NumChunkCalls(r) = 1
      /\ calls[r][1] = ChunkCall(0)

\* C21 witness: the analysis of a non-empty document that fits one chunk
\* returned, after one chunk request and the title request
C21_Witness ==
  \E r \in Requests :
    /\ outcome[r].kind = "returned"
    /\ parsedContent[r].content # <<>>
    /\ Len(parsedContent[r].content) <= MaxChars(AnalysisMaxTokens)
    /\ calls[r] = <<ChunkCall(0), TitleCall>>

\* the fields of the reply to chunk 0 of request r (none when the body is empty)
FirstReply(r) ==
  IF received[r][1].resp.content.kind = "json" THEN received[r][1].resp.content.value
  ELSE EmptyObject

\* the value of a document-level field that the reply to chunk 0 fixes
FixedByFirst(r, field, fallback) ==
  IF field \in DOMAIN FirstReply(r) /\ FirstReply(r)[field] # ""
  THEN FirstReply(r)[field]
  ELSE fallback

\* C22: overview, complexity and readingTime of the merged result are fixed by
\* the reply to chunk 0 alone, or by their defaults when that reply has none:
\* they keep that value whatever the replies to the chunks after it contain.
C22_FirstChunkFixesDocumentFields ==
  \A r \in Requests :
    (Len(received[r]) >= 1 /\ IsMerged(received[r][1])) =>
      LET fixed == [overview |-> FixedByFirst(r, "overview",
                       "Comprehensive analysis of transformer architecture and attention mechanisms."),
                    complexity |-> FixedByFirst(r, "complexity", "Advanced"),
                    readingTime |-> FixedByFirst(r, "readingTime", "20 min")]
      IN /\ \A f \in DOMAIN fixed : loc[r][f] = fixed[f]
         /\ outcome[r].kind = "returned" =>
              \A f \in DOMAIN fixed : outcome[r].value[f] = fixed[f]

\* C22 witness: a returned run in which a reply to a chunk after chunk 0
\* carried an overview, a complexity and a reading time of its own, all
\* different from those of the result
C22_Witness ==
  \E r \in Requests :
    /\ outcome[r].kind = "returned"
    /\ \E k \in 2..Len(received[r]) :
         /\ IsMerged(received[r][k])
         /\ received[r][k].resp.content.kind = "json"
         /\ {"overview", "complexity", "readingTime"} \subseteq DOMAIN received[r][k].resp.content.value
         /\ received[r][k].resp.content.value.overview # outcome[r].value.overview
         /\ received[r][k].resp.content.value.complexity # outcome[r].value.complexity
         /\ received[r][k].resp.content.value.readingTime # outcome[r].value.readingTime

\* the sections of the chunk replies, in chunk order and in the order of each reply
RECURSIVE SectionsOfReplies(_)
SectionsOfReplies(entries) ==
  IF entries = <<>> THEN <<>>
  ELSE (IF IsMerged(Head(entries)) /\ Head(entries).resp.content.kind = "json"
           /\ "sections" \in DOMAIN Head(entries).resp.content.value
        THEN Head(entries).resp.content.value.sections
        ELSE <<>>)
       \o SectionsOfReplies(Tail(entries))

\* C23: the sections of the merged result are the concatenation of the
\* sections returned for each chunk, in chunk order and keeping the order
\* within a chunk: no returned section is dropped, duplicated or reordered.
C23_SectionsConcatenated ==
  \A r \in Requests :
    /\ loc[r].allSections = SectionsOfReplies(received[r])
    /\ outcome[r].kind = "returned" =>
         outcome[r].value.sections = SectionsOfReplies(received[r])

\* C23 witness: a returned run over three chunks whose replies gave no section,
\* two sections and one section, a section title occurring in two replies
C23_Witness ==
  \E r \in Requests :
    /\ outcome[r].kind = "returned"
    /\ loc[r].i = 3
    /\ Len(outcome[r].value.sections) >= 3
    /\ \E k \in 1..3 : SectionsOfReplies(<<received[r][k]>>) = <<>>
    /\ \E j, k \in 1..Len(outcome[r].value.sections) :
         j # k /\ outcome[r].value.sections[j] = outcome[r].value.sections[k]

\* the chunk requests of request r that resolved with a reply
ResolvedChunkReplies(r) ==
  {k \in 1..Len(received[r]) : IsChunkEntry(received[r][k]) /\ ~IsFailure(received[r][k])}

TitleReplies(r) ==
  {k \in 1..Len(received[r]) : received[r][k].call.kind = "title" /\ ~IsFailure(received[r][k])}

\* the text of a reply without the white space around it (none for a null content)
TrimmedText(resp) == IF resp.content.kind = "text" THEN Trim(resp.content.value) ELSE <<>>

\* C25: the title the title request returns replaces the title only if its
\* trimmed length is greater than 10 and less than 150; otherwise (too short,
\* too long, empty, or no title request made) the generatedTitle of the result
\* is the original document title.
C25_TitleAcceptedByLength ==
  \A r \in Requests :
    outcome[r].kind = "returned" =>
      IF \E k \in TitleReplies(r) :
           Len(TrimmedText(received[r][k].resp)) > 10 /\ Len(TrimmedText(received[r][k].resp)) < 150
      THEN \E k \in TitleReplies(r) :
             outcome[r].value.generatedTitle = TrimmedText(received[r][k].resp)
      ELSE outcome[r].value.generatedTitle = loc[r].originalTitle

\* C25 witness: a title of 150 characters followed by white space was
\* returned and the result keeps the title of the document
C25_Witness ==
  \E r \in Requests :
    /\ outcome[r].kind = "returned"
    /\ \E k \in TitleReplies(r) :
         /\ Len(TrimmedText(received[r][k].resp)) = 150
         /\ Len(received[r][k].resp.content.value) > 150
    /\ outcome[r].value.generatedTitle = parsedContent[r].title
    /\ parsedContent[r].title # <<>>

\* ------------------------------------------------------------------------
\* Properties of the title and the authors of parsePDF (SpecParse)
\* ------------------------------------------------------------------------

\* parsePDF resolved for a document with a first page
ParsedFirstPage ==
  /\ pdfPhase = "done"
  /\ pdfResult.kind = "resolved"
  /\ HasFirstPage(pdfData.pages)

\* the text items the version called searches, top to bottom
Searched == Fragments(pdfVersion, pdfData.pages)

\* how many of them the version called looks at for the title and for the authors
TitleReach == IF pdfVersion = "part_006" THEN TitleWindow ELSE TopWindow

AuthorReach == IF pdfVersion = "part_006" THEN AuthorWindow ELSE AuthorSearch

\* the positions of the items that pass the title filter, and of the items
\* other than the title that pass the author filter
TitlePlaces == {k \in 1..Len(Slice0(Searched, TitleReach)) : PassesTitleHeuristic(Searched[k])}

RemainingAuthorPlaces ==
  {k \in 1..Len(Slice0(Searched, AuthorReach)) :
     /\ PassesAuthorHeuristic(Searched[k])
     /\ TitlePlaces # {} => k # Least(TitlePlaces)}

\* C26: the title of parsePDF is the topmost text item of the first page,
\* among those looked at, that passes the title filter, and authors is the
\* topmost remaining item that passes the author filter; with the topmost
\* item 'Attention Is All You Need' and the second 'Ashish Vaswani, Noam
\* Shazeer' the result is that title and those authors.
C26_TopmostTitleAndAuthors ==
  ParsedFirstPage =>
    /\ TitlePlaces # {} => pdfResult.value.title = Trim(Searched[Least(TitlePlaces)].str)
    /\ RemainingAuthorPlaces # {}
         => pdfResult.value.authors = Trim(Searched[Least(RemainingAuthorPlaces)].str)
    /\ (Len(Searched) >= 2 /\ Searched[1].str = AttentionTitle /\ Searched[2].str = VaswaniAuthors)
         => /\ pdfResult.value.title = AttentionTitle
            /\ pdfResult.value.authors = VaswaniAuthors

\* C27: the authors of parsePDF are never taken from the text item that was
\* taken as the title: the search for the authors leaves out the position of
\* the title in the list of items, wherever in the list the title was found.
C27_AuthorsNotTheTitle ==
  (/\ ParsedFirstPage
   /\ TitlePosition(pdfVersion, pdfData.pages) # 0
   /\ AuthorPosition(pdfVersion, pdfData.pages) # 0)
    => AuthorPosition(pdfVersion, pdfData.pages) # TitlePosition(pdfVersion, pdfData.pages)

\* ------------------------------------------------------------------------
\* Properties of the title request and of the handler (Spec)
\* ------------------------------------------------------------------------

\* C28: when every chunk request succeeded and the title request fails,
\* analyzePaperWithGPT rejects and the merged result is discarded, the title
\* of the document not being used instead; the title request is issued after
\* all chunk requests, and only when the merged list of sections is not empty.
C28_TitleFailureRejects ==
  \A r \in Requests :
    /\ \A k \in 1..Len(received[r]) :
         (received[r][k].call.kind = "title" /\ IsFailure(received[r][k])) =>
           /\ outcome[r].kind = "rejected"
           /\ "value" \notin DOMAIN outcome[r]
           /\ outcome[r].message = "Failed to analyze paper: " \o received[r][k].error.message
           /\ getAnalysisByPaperId(analyses, paper[r]) = {}
    /\ \A j \in 1..Len(calls[r]) :
         calls[r][j].kind = "title" =>
           /\ j = Len(loc[r].chunks) + 1
           /\ j = Len(calls[r])
           /\ loc[r].i = Len(loc[r].chunks)
           /\ \A k \in 1..(j - 1) : IsMerged(received[r][k])
           /\ Len(loc[r].allSections) > 0

\* C28 witness: the title request failed after the replies to two chunks were
\* merged, and the request was answered with the error
C28_Witness ==
  \E r \in Requests :
    /\ Len(received[r]) = 3
    /\ received[r][3].call.kind = "title"
    /\ IsFailure(received[r][3])
    /\ Len(loc[r].allSections) >= 2
    /\ loc[r].totalCost > 0
    /\ outcome[r].kind = "rejected"
    /\ pc[r] = "responded"
    /\ response[r].status = 500

\* ------------------------------------------------------------------------
\* Properties of the Paper records (SpecConcurrent)
\* ------------------------------------------------------------------------

\* the statuses of the papers are well formed: none is 'failed', a completed
\* paper has its Analysis record, and the paper of a failed analysis is 'processing'
StatusesConsistent ==
  /\ \A id \in DOMAIN papers :
       /\ papers[id].status \in {"pending", "processing", "completed"}
       /\ papers[id].status = "completed" => getAnalysisByPaperId(analyses, id) # {}
  /\ \A r \in ConcurrentRequests :
       outcome[r].kind = "rejected" =>
         /\ paper[r] \in DOMAIN papers
         /\ papers[paper[r]].status = "processing"

\* a step keeps the papers, adds one as 'pending', or moves a status one stage on
StatusMovesForward ==
  /\ Len(papers') >= Len(papers)
  /\ \A id \in DOMAIN papers' :
       IF id \in DOMAIN papers
       THEN \/ papers'[id].status = papers[id].status
            \/ papers[id].status = "pending" /\ papers'[id].status = "processing"
            \/ papers[id].status = "processing" /\ papers'[id].status = "completed"
       ELSE papers'[id].status = "pending"

C30_UploadDeleted ==
  \A r \in Requests :
    (pc[r] = "responded" /\ input[r].file # NULL) => UploadPath(r) \notin files

====
